---- MODULE Spec2Model ----
(***************************************************************************)
(* Model of src/src/utils/currencyParser.ts: the amount normalizer         *)
(* parseNorwegianCurrency (normalizeAmount in the specification) and the   *)
(* receipt field extractor extractStructuredFields (extractFields).        *)
(*                                                                         *)
(* Strings are sequences of characters, a character being a one-letter     *)
(* TLA+ string; positions are 1-based (JavaScript index + 1), so that      *)
(* "not found" (-1 in JavaScript) is 0 here.  Numbers are exact decimals   *)
(* kept as digit sequences, which is what parseFloat yields for the digit  *)
(* strings of at most 15 significant digits the model builds.              *)
(***************************************************************************)
EXTENDS Integers, Sequences, FiniteSets, TLC

VARIABLES moneyStr, amount, text, written, fields, regexLastIndex, log

vars == <<moneyStr, amount, text, written, fields, regexLastIndex, log>>

---------------------------------------------------------------------------
(* Characters *)

DigitChars == <<"0", "1", "2", "3", "4", "5", "6", "7", "8", "9">>

DigitSet == {"0", "1", "2", "3", "4", "5", "6", "7", "8", "9"}

IsDigit(c) == c \in DigitSet

SpaceSet == {" ", "\t", "\n", "\r"}

\* JavaScript white space (\s, and what String.prototype.trim removes)
IsSpace(c) == c \in SpaceSet

LowerLetters == <<"a", "b", "c", "d", "e", "f", "g", "h", "i", "j", "k", "l", "m",
                  "n", "o", "p", "q", "r", "s", "t", "u", "v", "w", "x", "y", "z">>

UpperLetters == <<"A", "B", "C", "D", "E", "F", "G", "H", "I", "J", "K", "L", "M",
                  "N", "O", "P", "Q", "R", "S", "T", "U", "V", "W", "X", "Y", "Z">>

\* the letters with a ring, a stroke and the ligature of the keywords
\* "å betale" and "beløp" and of the name-letter class [a-zA-ZæøåÆØÅ]
aring == "aa"

ARING == "AA"

oslash == "oe"

OSLASH == "OE"

aelig == "ae"

AELIG == "AE"

LowerSet == {LowerLetters[k] : k \in 1..26}

UpperSet == {UpperLetters[k] : k \in 1..26}

IsLower(c) == c \in LowerSet

IsUpper(c) == c \in UpperSet

LowerMap ==
    [c \in UpperSet \cup {ARING, OSLASH, AELIG} |->
        IF c = ARING THEN aring
        ELSE IF c = OSLASH THEN oslash
        ELSE IF c = AELIG THEN aelig
        ELSE LowerLetters[CHOOSE k \in 1..26 : UpperLetters[k] = c]]

UpperMap ==
    [c \in LowerSet \cup {aring, oslash, aelig} |->
        IF c = aring THEN ARING
        ELSE IF c = oslash THEN OSLASH
        ELSE IF c = aelig THEN AELIG
        ELSE UpperLetters[CHOOSE k \in 1..26 : LowerLetters[k] = c]]

\* the case folding of the i flag
ToLowerChar(c) == IF c \in DOMAIN LowerMap THEN LowerMap[c] ELSE c

ToUpperChar(c) == IF c \in DOMAIN UpperMap THEN UpperMap[c] ELSE c

toUpperCase(s) == [k \in 1..Len(s) |-> ToUpperChar(s[k])]

WordSet == LowerSet \cup UpperSet \cup DigitSet \cup {"_"}

\* \w of a JavaScript regular expression: [A-Za-z0-9_]
IsWordChar(c) == c \in WordSet

---------------------------------------------------------------------------
(* String operations of JavaScript used by the parser *)

RECURSIVE Filter(_, _)
\* s.replace(/<class>/g, ''): s without the characters of the set drop
Filter(s, drop) ==
    IF s = <<>> THEN <<>>
    ELSE IF Head(s) \in drop THEN Filter(Tail(s), drop)
    ELSE <<Head(s)>> \o Filter(Tail(s), drop)

\* s.includes(c)
includes(s, c) == \E k \in 1..Len(s) : s[k] = c

\* s.lastIndexOf(c), 1-based; 0 when c does not occur
lastIndexOf(s, c) ==
    IF includes(s, c)
    THEN CHOOSE k \in 1..Len(s) : s[k] = c /\ \A j \in (k + 1)..Len(s) : s[j] # c
    ELSE 0

\* s.indexOf(c), 1-based; 0 when c does not occur
indexOf(s, c) ==
    IF includes(s, c)
    THEN CHOOSE k \in 1..Len(s) : s[k] = c /\ \A j \in 1..(k - 1) : s[j] # c
    ELSE 0

\* s.replace(c, d) with a string pattern: only the FIRST occurrence is replaced
replaceFirst(s, c, d) ==
    IF includes(s, c) THEN [s EXCEPT ![indexOf(s, c)] = d] ELSE s

\* a replace without the g flag: only the first occurrence removed
removeAll_firstOnly(s, c) ==
    IF includes(s, c)
    THEN SubSeq(s, 1, indexOf(s, c) - 1) \o SubSeq(s, indexOf(s, c) + 1, Len(s))
    ELSE s

\* s.replace(/c/g, ''): every occurrence removed
removeAll(s, c) == Filter(s, {c})

\* s.substring(p) for a 1-based first kept position p
substringFrom(s, p) == SubSeq(s, p, Len(s))

RECURSIVE trimStart(_)
trimStart(s) ==
    IF s # <<>> /\ IsSpace(Head(s)) THEN trimStart(Tail(s)) ELSE s

RECURSIVE trimEnd(_)
trimEnd(s) ==
    IF s # <<>> /\ IsSpace(s[Len(s)]) THEN trimEnd(SubSeq(s, 1, Len(s) - 1)) ELSE s

\* the token taken without trim()
trim_none(s) == s

\* s.trim()
trim(s) == trimEnd(trimStart(s))

\* the test with {3} in place of {2}
IsTwoDigits_three(s) == Len(s) = 3 /\ IsDigit(s[1]) /\ IsDigit(s[2]) /\ IsDigit(s[3])

\* /^\d{2}$/.test(s) together with s.length === 2
IsTwoDigits(s) == Len(s) = 2 /\ IsDigit(s[1]) /\ IsDigit(s[2])

\* the replacement with /[^\d.-]/g, which keeps a minus sign
stripNonNumeric_keepMinus(s) == SelectSeq(s, LAMBDA c : IsDigit(c) \/ c \in {".", "-"})

\* s.replace(/[^\d.]/g, '')
stripNonNumeric(s) == SelectSeq(s, LAMBDA c : IsDigit(c) \/ c = ".")

---------------------------------------------------------------------------
(* Numbers: an exact decimal is its sign, its integer digits without       *)
(* leading zeros and its fraction digits without trailing zeros.           *)

Undefined == [kind |-> "undefined"]

NotCalled == [kind |-> "none"]

RECURSIVE dropLeadingZeros(_)
dropLeadingZeros(d) ==
    IF d # <<>> /\ Head(d) = "0" THEN dropLeadingZeros(Tail(d)) ELSE d

RECURSIVE dropTrailingZeros(_)
dropTrailingZeros(d) ==
    IF d # <<>> /\ d[Len(d)] = "0"
    THEN dropTrailingZeros(SubSeq(d, 1, Len(d) - 1)) ELSE d

Number(intDigits, fracDigits) ==
    [kind |-> "number",
     neg  |-> FALSE,
     int  |-> dropLeadingZeros(intDigits),
     frac |-> dropTrailingZeros(fracDigits)]

IsNumber(x) == x.kind = "number"

DigitValue(c) == (CHOOSE k \in 1..10 : DigitChars[k] = c) - 1

RECURSIVE LexLess(_, _)
\* digit sequences compared left to right, a missing digit counting as 0
LexLess(a, b) ==
    IF b = <<>> THEN FALSE
    ELSE IF a = <<>> THEN \E k \in 1..Len(b) : b[k] # "0"
    ELSE IF Head(a) # Head(b) THEN DigitValue(Head(a)) < DigitValue(Head(b))
    ELSE LexLess(Tail(a), Tail(b))

\* x < y for two numbers
NumLess(x, y) ==
    \/ Len(x.int) < Len(y.int)
    \/ Len(x.int) = Len(y.int) /\ LexLess(x.int, y.int)
    \/ x.int = y.int /\ LexLess(x.frac, y.frac)

Zero == Number(<<>>, <<>>)

\* JavaScript truthiness of a number | undefined: neither undefined nor 0
Truthy(x) == IsNumber(x) /\ x # Zero

\* the length of the leading run of digits of s
RECURSIVE DigitRun(_)
DigitRun(s) ==
    IF s # <<>> /\ IsDigit(Head(s)) THEN 1 + DigitRun(Tail(s)) ELSE 0

\* parseFloat with `result || 0` in place of the isNaN test
parseFloat_zeroForNaN(s) ==
    LET n     == DigitRun(s)
        ip    == SubSeq(s, 1, n)
        rest  == SubSeq(s, n + 1, Len(s))
        hasPt == rest # <<>> /\ Head(rest) = "."
        m     == IF hasPt THEN DigitRun(Tail(rest)) ELSE 0
        fp    == IF hasPt THEN SubSeq(rest, 2, m + 1) ELSE <<>>
    IN  Number(ip, fp)

\* parseFloat(s) for a string of digits, dots and signs, then
\* `isNaN(r) ? undefined : r`: after one optional sign, the longest prefix
\* digits [. digits] that holds a digit is the number; -0 is 0
parseFloat(s) ==
    LET signed == s # <<>> /\ Head(s) \in {"-", "+"}
        body  == IF signed THEN Tail(s) ELSE s
        n     == DigitRun(body)
        ip    == SubSeq(body, 1, n)
        rest  == SubSeq(body, n + 1, Len(body))
        hasPt == rest # <<>> /\ Head(rest) = "."
        m     == IF hasPt THEN DigitRun(Tail(rest)) ELSE 0
        fp    == IF hasPt THEN SubSeq(rest, 2, m + 1) ELSE <<>>
    IN  IF n = 0 /\ m = 0 THEN Undefined
        ELSE [Number(ip, fp) EXCEPT
                 !.neg = signed /\ Head(s) = "-" /\ Number(ip, fp) # Zero]

---------------------------------------------------------------------------
(* parseNorwegianCurrency *)

\* `lastCommaPos > lastDotPos`: the comma stands after the last dot
CommaIsLater_flipped(lastCommaPos, lastDotPos) == lastCommaPos < lastDotPos

CommaIsLater(lastCommaPos, lastDotPos) == lastCommaPos > lastDotPos

\* the branches of separator resolution: the string before the final strip
resolveSeparators(cleaned) ==
    LET hasComma     == includes(cleaned, ",")
        hasDot       == includes(cleaned, ".")
        lastCommaPos == lastIndexOf(cleaned, ",")
        lastDotPos   == lastIndexOf(cleaned, ".")
    IN  IF hasComma /\ hasDot
        THEN IF CommaIsLater(lastCommaPos, lastDotPos)
             THEN replaceFirst(removeAll(cleaned, "."), ",", ".")
             ELSE removeAll(cleaned, ",")
        ELSE IF hasComma /\ ~hasDot
        THEN IF IsTwoDigits(substringFrom(cleaned, lastCommaPos + 1))
             THEN replaceFirst(cleaned, ",", ".")
             ELSE removeAll(cleaned, ",")
        ELSE IF hasDot /\ ~hasComma
        THEN IF IsTwoDigits(substringFrom(cleaned, lastDotPos + 1))
             THEN cleaned
             ELSE removeAll(cleaned, ".")
        ELSE cleaned

parseNorwegianCurrency(str) ==
    IF str = <<>> THEN Undefined
    ELSE parseFloat(stripNonNumeric(resolveSeparators(trim(str))))

---------------------------------------------------------------------------
(* Amounts written in canonical form, the inputs of the round trip *)

RECURSIVE NatDigits(_)
\* the decimal digits of a natural number, "0" for 0
NatDigits(n) ==
    IF n < 10 THEN <<DigitChars[n + 1]>>
    ELSE NatDigits(n \div 10) \o <<DigitChars[(n % 10) + 1]>>

\* the amount of `cents` hundredths written D<sep>DD
FormatAmount(cents, sep) ==
    NatDigits(cents \div 100) \o <<sep>>
        \o <<DigitChars[((cents % 100) \div 10) + 1], DigitChars[(cents % 10) + 1]>>

RECURSIVE DigitsValue(_)
\* the natural number a digit sequence denotes
DigitsValue(d) ==
    IF d = <<>> THEN 0
    ELSE 10 * DigitsValue(SubSeq(d, 1, Len(d) - 1)) + DigitValue(d[Len(d)])

\* the hundredths in a number of at most two fraction digits
CentsOf(x) ==
    100 * DigitsValue(x.int)
        + (IF Len(x.frac) >= 1 THEN 10 * DigitValue(x.frac[1]) ELSE 0)
        + (IF Len(x.frac) >= 2 THEN DigitValue(x.frac[2]) ELSE 0)

---------------------------------------------------------------------------
(* The normalizer as a state machine: a caller assembles a token (typing   *)
(* it, or formatting an amount) and calls parseNorwegianCurrency on it.    *)

MaxTokenLen == 5

MaxUnits == 100

TokenChars == {"0", "1", "5", ",", ".", " ", "a"}

LargeUnits == {1234, 54321, 999999, 1000000}

CanonicalCents ==
    {100 * u + c : u \in (0..MaxUnits) \cup LargeUnits, c \in 0..99}

NoFields == [kind |-> "none"]

InitNorm ==
    /\ moneyStr = <<>>
    /\ amount = NotCalled
    /\ text = <<>>
    /\ written = 0
    /\ fields = NoFields
    /\ regexLastIndex = [pattern \in {"total0", "total1", "total2", "money"} |-> 1]
    /\ log = <<>>

TypeChar(c) ==
    /\ amount = NotCalled
    /\ Len(moneyStr) < MaxTokenLen
    /\ moneyStr' = Append(moneyStr, c)
    /\ UNCHANGED <<amount, text, written, fields, regexLastIndex, log>>

FormatDot ==
    /\ amount = NotCalled
    /\ moneyStr = <<>>
    /\ \E cents \in CanonicalCents : moneyStr' = FormatAmount(cents, ".")
    /\ UNCHANGED <<amount, text, written, fields, regexLastIndex, log>>

FormatComma ==
    /\ amount = NotCalled
    /\ moneyStr = <<>>
    /\ \E cents \in CanonicalCents : moneyStr' = FormatAmount(cents, ",")
    /\ UNCHANGED <<amount, text, written, fields, regexLastIndex, log>>

\* the tokens of the test suite and of CURRENCY_SOLUTION.md, a token with
\* two commas and a token with two dots
ExampleTokens ==
    {<<"1", ".", "2", "3", "4", ",", "5", "6">>,
     <<"1", ",", "2", "3", "4", ".", "5", "6">>,
     <<"1", "2", "3", ".", "4", "5", "6", ",", "7", "8">>,
     <<"1", "2", ",", "3", "4", "5", ".", "6", "7">>,
     <<"1", ".", "2", "3", "4">>,
     <<"1", ",", "2", "3", "4">>,
     <<"1", "2", ",", "5">>,
     <<"1", "2", "3", ",">>,
     <<"1", "2", "3", ",", "4", "5">>,
     <<"1", "2", "3", ".", "4", "5">>,
     <<"1", " ", "2", "3", "4", ",", "5", "6">>,
     <<" ", "1", "2", "3", ",", "4", "5", " ">>,
     <<"\t", "1", ".", "2", "3", "4", ",", "5", "6", "\n">>,
     <<"1", "2", ",", "5", "0", " ", "k", "r">>,
     <<"-", "1", "2", ",", "5", "0">>,
     <<"a", "b", "c">>,
     <<"1", ",", "2", "3", "4", ",", "5", "6">>,
     <<"1", ".", "2", "3", "4", ".", "5", "6">>,
     <<" ", "\t", "\n">>}

UseExample ==
    /\ amount = NotCalled
    /\ moneyStr = <<>>
    /\ moneyStr' \in ExampleTokens
    /\ UNCHANGED <<amount, text, written, fields, regexLastIndex, log>>

Parse ==
    /\ amount = NotCalled
    /\ amount' = parseNorwegianCurrency(moneyStr)
    /\ UNCHANGED <<moneyStr, text, written, fields, regexLastIndex, log>>

NextNorm ==
    \/ \E c \in TokenChars : TypeChar(c)
    \/ FormatDot
    \/ FormatComma
    \/ UseExample
    \/ Parse

SpecNorm == InitNorm /\ [][NextNorm]_vars

---------------------------------------------------------------------------
(* Regular expressions.  A pattern element tried at position i of t yields *)
(* the positions at which it can end (the position of the next character), *)
(* in the order in which the backtracking matcher tries them: greedy       *)
(* quantifiers longest first, alternatives left to right.                  *)

CharAt(t, i) == IF i >= 1 /\ i <= Len(t) THEN t[i] ELSE "<end>"

RECURSIVE Concat(_)
Concat(seqs) == IF seqs = <<>> THEN <<>> ELSE Head(seqs) \o Concat(Tail(seqs))

\* the ends of `first then F`: F tried from every end in `ends`, in order
FlatMap(t, ends, F(_, _)) == Concat([k \in 1..Len(ends) |-> F(t, ends[k])])

\* a literal word under the i flag; `word` is written in lower case
Lit(t, i, word) ==
    IF /\ i + Len(word) - 1 <= Len(t)
       /\ ToLowerChar(t[i]) = word[1]
       /\ \A k \in 2..Len(word) : ToLowerChar(t[i + k - 1]) = word[k]
    THEN <<i + Len(word)>> ELSE <<>>

\* from i + n down to i + least
Countdown(i, n, least) == [k \in 1..(n - least + 1) |-> i + n - k + 1]

RECURSIVE SpaceRun(_, _)
SpaceRun(t, i) == IF IsSpace(CharAt(t, i)) THEN 1 + SpaceRun(t, i + 1) ELSE 0

RECURSIVE DigitRunAt(_, _)
DigitRunAt(t, i) == IF IsDigit(CharAt(t, i)) THEN 1 + DigitRunAt(t, i + 1) ELSE 0

\* \s*
SpaceStar(t, i) == Countdown(i, SpaceRun(t, i), 0)

\* \s+
SpacePlus(t, i) == Countdown(i, SpaceRun(t, i), 1)

Min(a, b) == IF a < b THEN a ELSE b

\* [0-9]{1,4}
Digits1to4(t, i) == Countdown(i, Min(DigitRunAt(t, i), 4), 1)

\* [0-9]+
DigitsPlus(t, i) == Countdown(i, DigitRunAt(t, i), 1)

\* [0-9]{3}
Digits3(t, i) == IF DigitRunAt(t, i) >= 3 THEN <<i + 3>> ELSE <<>>

\* [.,][0-9]{2}
DecimalTail(t, i) ==
    IF CharAt(t, i) \in {".", ","} /\ DigitRunAt(t, i + 1) >= 2
    THEN <<i + 3>> ELSE <<>>

\* [\s.,][0-9]{3}
GroupSpace(t, i) ==
    IF CharAt(t, i) \in {".", ","} \/ IsSpace(CharAt(t, i)) THEN Digits3(t, i + 1) ELSE <<>>

\* [.,][0-9]{3}
GroupPlain(t, i) ==
    IF CharAt(t, i) \in {".", ","} THEN Digits3(t, i + 1) ELSE <<>>

\* [.,]\s*[0-9]{3}
GroupGap(t, i) ==
    IF CharAt(t, i) \in {".", ","}
    THEN FlatMap(t, SpaceStar(t, i + 1), Digits3) ELSE <<>>

RECURSIVE GroupSpaceStar(_, _)
\* (?:[\s.,][0-9]{3})*
GroupSpaceStar(t, i) == FlatMap(t, GroupSpace(t, i), GroupSpaceStar) \o <<i>>

RECURSIVE GroupPlainStar(_, _)
\* (?:[.,][0-9]{3})*
GroupPlainStar(t, i) == FlatMap(t, GroupPlain(t, i), GroupPlainStar) \o <<i>>

RECURSIVE GroupGapStar(_, _)
\* (?:[.,]\s*[0-9]{3})*
GroupGapStar(t, i) == FlatMap(t, GroupGap(t, i), GroupGapStar) \o <<i>>

GroupSpaceStarThenTail(t, i) == FlatMap(t, GroupSpaceStar(t, i), DecimalTail)

GroupPlainStarThenTail(t, i) == FlatMap(t, GroupPlainStar(t, i), DecimalTail)

GroupGapStarThenTail(t, i) == FlatMap(t, GroupGapStar(t, i), DecimalTail)

\* [0-9]{1,4}(?:[\s.,][0-9]{3})*[.,][0-9]{2}
AmountSpace(t, i) == FlatMap(t, Digits1to4(t, i), GroupSpaceStarThenTail)

\* [0-9]{1,4}(?:[.,][0-9]{3})*[.,][0-9]{2}
AmountPlain(t, i) == FlatMap(t, Digits1to4(t, i), GroupPlainStarThenTail)

\* [0-9]{1,4}(?:[.,]\s*[0-9]{3})*[.,][0-9]{2}
AmountGap(t, i) == FlatMap(t, Digits1to4(t, i), GroupGapStarThenTail)

\* [0-9]+[.,][0-9]{2}
AmountSimple(t, i) == FlatMap(t, DigitsPlus(t, i), DecimalTail)

\* [0-9]{1,4}(?:[\s.,][0-9]{3})*[.,][0-9]{2}|[0-9]+[.,][0-9]{2}
Money(t, i) == AmountSpace(t, i) \o AmountSimple(t, i)

---------------------------------------------------------------------------
(* Matches: a match is its first position, the position after it, and the  *)
(* strings of its capture groups.                                          *)

NoMatch == [kind |-> "null"]

Match(t, from, to, caps) ==
    [kind |-> "match", start |-> from, end |-> to, groups |-> caps]

\* one match per capture end: the capture runs from cs to each of `ends`
\* and the match ends where the capture ends
CaptureLast(t, from, cs, ends) ==
    [k \in 1..Len(ends) |-> Match(t, from, ends[k], <<SubSeq(t, cs, ends[k] - 1)>>)]

\* the matches that start at `from` and whose only capture starts at one of
\* `starts`, in order
FlatMatches(t, from, starts, Cap(_, _)) ==
    Concat([k \in 1..Len(starts) |-> CaptureLast(t, from, starts[k], Cap(t, starts[k]))])

\* the matches that start at `from` with their only capture, and end where
\* Suffix, tried after the capture, ends
CaptureThen(t, from, Cap(_, _), Suffix(_, _)) ==
    LET ces == Cap(t, from)
    IN  Concat([k \in 1..Len(ces) |->
            LET es == Suffix(t, ces[k])
            IN  [j \in 1..Len(es) |->
                    Match(t, from, es[j], <<SubSeq(t, from, ces[k] - 1)>>)]])

---------------------------------------------------------------------------
(* The patterns of extractStructuredFields *)

\* (?:totalt|total|sum|å\s*betale|beløp|purchase\s*nok)
TotalKeyword(t, i) ==
    Lit(t, i, <<"t", "o", "t", "a", "l", "t">>)
        \o Lit(t, i, <<"t", "o", "t", "a", "l">>)
        \o Lit(t, i, <<"s", "u", "m">>)
        \o FlatMap(t, FlatMap(t, Lit(t, i, <<aring>>), SpaceStar),
                   LAMBDA u, e : Lit(u, e, <<"b", "e", "t", "a", "l", "e">>))
        \o Lit(t, i, <<"b", "e", "l", oslash, "p">>)
        \o FlatMap(t, FlatMap(t, Lit(t, i, <<"p", "u", "r", "c", "h", "a", "s", "e">>),
                              SpaceStar),
                   LAMBDA u, e : Lit(u, e, <<"n", "o", "k">>))

\* (?:totalt|total|sum)
TotalKeywordAfter(t, i) ==
    Lit(t, i, <<"t", "o", "t", "a", "l", "t">>)
        \o Lit(t, i, <<"t", "o", "t", "a", "l">>)
        \o Lit(t, i, <<"s", "u", "m">>)

\* [:=]?
OptColonEq(t, i) == IF CharAt(t, i) \in {":", "="} THEN <<i + 1, i>> ELSE <<i>>

\* totalPatterns[0]:
\* /(?:totalt|total|sum|å\s*betale|beløp|purchase\s*nok)\s*[:=]?\s*(<money>)/gi
TotalPattern0(t, i) ==
    FlatMatches(t, i,
        FlatMap(t, FlatMap(t, FlatMap(t, TotalKeyword(t, i), SpaceStar), OptColonEq),
                SpaceStar),
        Money)

\* totalPatterns[1]: /bank:\s*([0-9]{1,4}(?:[\s.,][0-9]{3})*[.,][0-9]{2})/gi
TotalPattern1(t, i) ==
    FlatMatches(t, i,
        FlatMap(t, Lit(t, i, <<"b", "a", "n", "k", ":">>), SpaceStar),
        AmountSpace)

\* totalPatterns[2]:
\* /([0-9]{1,4}(?:[\s.,][0-9]{3})*[.,][0-9]{2})\s*(?:totalt|total|sum)/gi
TotalPattern2(t, i) ==
    CaptureThen(t, i, AmountSpace,
        LAMBDA u, e : FlatMap(u, SpaceStar(u, e), TotalKeywordAfter))

\* moneyRegex: /([0-9]{1,4}(?:[\s.,][0-9]{3})*[.,][0-9]{2}|[0-9]+[.,][0-9]{2})/g
MoneyPattern(t, i) == FlatMatches(t, i, <<i>>, Money)

\* (?:MVA|VAT)
VatKeyword(t, i) == Lit(t, i, <<"m", "v", "a">>) \o Lit(t, i, <<"v", "a", "t">>)

\* 25%
Lit25Percent(t, i) == Lit(t, i, <<"2", "5", "%">>)

\* (?:25%?)?
Opt25Percent(t, i) ==
    FlatMap(t, Lit(t, i, <<"2", "5">>),
            LAMBDA u, e : IF CharAt(u, e) = "%" THEN <<e + 1, e>> ELSE <<e>>)
        \o <<i>>

\* vatMatches[0]: /(<amount>)\s*25%\s*(<amount>)/i with [.,]\s*[0-9]{3} groups
VatPattern0(t, i) ==
    LET c1s == AmountGap(t, i)
    IN  Concat([k \in 1..Len(c1s) |->
            LET c2starts == FlatMap(t, FlatMap(t, SpaceStar(t, c1s[k]), Lit25Percent),
                                    SpaceStar)
            IN  Concat([j \in 1..Len(c2starts) |->
                    LET c2s == AmountGap(t, c2starts[j])
                    IN  [n \in 1..Len(c2s) |->
                            Match(t, i, c2s[n],
                                  <<SubSeq(t, i, c1s[k] - 1),
                                    SubSeq(t, c2starts[j], c2s[n] - 1)>>)]])])

\* vatMatches[1]: /herav\s+mva\s+(<amount>)/i
VatPattern1(t, i) ==
    FlatMatches(t, i,
        FlatMap(t, FlatMap(t, FlatMap(t, Lit(t, i, <<"h", "e", "r", "a", "v">>), SpacePlus),
                           LAMBDA u, e : Lit(u, e, <<"m", "v", "a">>)),
                SpacePlus),
        AmountPlain)

\* vatMatches[2]: /(?:MVA|VAT)\s*(?:25%?)?\s*(<amount>)/i
VatPattern2(t, i) ==
    FlatMatches(t, i,
        FlatMap(t, FlatMap(t, FlatMap(t, VatKeyword(t, i), SpaceStar), Opt25Percent),
                SpaceStar),
        AmountPlain)

\* vatMatches[3]: /MVA\s+(<amount>)/i
VatPattern3(t, i) ==
    FlatMatches(t, i, FlatMap(t, Lit(t, i, <<"m", "v", "a">>), SpacePlus), AmountPlain)

\* vatMatches[4]: /(<amount>)\s*(?:MVA|VAT)/i
VatPattern4(t, i) ==
    CaptureThen(t, i, AmountPlain,
        LAMBDA u, e : FlatMap(u, SpaceStar(u, e), VatKeyword))

\* the pattern without its \b
WordBoundary_always(t, i) == TRUE

\* \b: a word character on exactly one side of position i
WordBoundary(t, i) == IsWordChar(CharAt(t, i - 1)) # IsWordChar(CharAt(t, i))

\* (EUR|USD|GBP|SEK|DKK|NOK)
CurrencyCode(t, i) ==
    Lit(t, i, <<"e", "u", "r">>) \o Lit(t, i, <<"u", "s", "d">>)
        \o Lit(t, i, <<"g", "b", "p">>) \o Lit(t, i, <<"s", "e", "k">>)
        \o Lit(t, i, <<"d", "k", "k">>) \o Lit(t, i, <<"n", "o", "k">>)

\* /\b(EUR|USD|GBP|SEK|DKK|NOK)\b/i
CurrencyPattern(t, i) ==
    IF WordBoundary(t, i)
    THEN CaptureThen(t, i, CurrencyCode,
             LAMBDA u, e : IF WordBoundary(u, e) THEN <<e>> ELSE <<>>)
    ELSE <<>>

\* the matches a pattern has at position i, in the matcher's order
CandidatesAt(pattern, t, i) ==
    CASE pattern = "total0"   -> TotalPattern0(t, i)
      [] pattern = "total1"   -> TotalPattern1(t, i)
      [] pattern = "total2"   -> TotalPattern2(t, i)
      [] pattern = "money"    -> MoneyPattern(t, i)
      [] pattern = "vat0"     -> VatPattern0(t, i)
      [] pattern = "vat1"     -> VatPattern1(t, i)
      [] pattern = "vat2"     -> VatPattern2(t, i)
      [] pattern = "vat3"     -> VatPattern3(t, i)
      [] pattern = "vat4"     -> VatPattern4(t, i)
      [] pattern = "currency" -> CurrencyPattern(t, i)

\* the characters (lower case) with which a match of the pattern can begin:
\* at any other character the matcher fails at once
FirstChars(pattern) ==
    CASE pattern = "total0"   -> {"t", "s", aring, "b", "p"}
      [] pattern = "total1"   -> {"b"}
      [] pattern = "total2"   -> DigitSet
      [] pattern = "money"    -> DigitSet
      [] pattern = "vat0"     -> DigitSet
      [] pattern = "vat1"     -> {"h"}
      [] pattern = "vat2"     -> {"m", "v"}
      [] pattern = "vat3"     -> {"m"}
      [] pattern = "vat4"     -> DigitSet
      [] pattern = "currency" -> {"e", "u", "g", "s", "d", "n"}

\* the least element of a non-empty set of positions
Least(S) == CHOOSE x \in S : \A y \in S : x <= y

\* the positions from lastIndex on at which the pattern has a match
MatchStarts(pattern, t, lastIndex) ==
    {i \in lastIndex..Len(t) :
        /\ ToLowerChar(t[i]) \in FirstChars(pattern)
        /\ CandidatesAt(pattern, t, i) # <<>>}

\* the first match at the leftmost of the start positions, or null
firstMatchAt(pattern, t, starts) ==
    IF starts = {} THEN NoMatch
    ELSE Head(CandidatesAt(pattern, t, Least(starts)))

\* pattern.exec(text) with pattern.lastIndex = lastIndex (1-based): the first
\* match at the leftmost position that has one, or null
exec(pattern, t, lastIndex) ==
    firstMatchAt(pattern, t, MatchStarts(pattern, t, lastIndex))

\* characters (lower case) of which every match of the pattern holds at
\* least one: a text without any of them has no match
NeededChars(pattern) ==
    CASE pattern = "total0"   -> {"t", "s", "b", "p"}
      [] pattern = "total1"   -> {":"}
      [] pattern = "total2"   -> {"t", "s"}
      [] pattern = "money"    -> {".", ","}
      [] pattern = "vat0"     -> {"%"}
      [] pattern = "vat1"     -> {"h"}
      [] pattern = "vat2"     -> {"m", "v"}
      [] pattern = "vat3"     -> {"m"}
      [] pattern = "vat4"     -> {"m", "v"}
      [] pattern = "currency" -> {"e", "u", "g", "s", "d", "n"}

CanMatch(pattern, t) ==
    \E k \in 1..Len(t) : ToLowerChar(t[k]) \in NeededChars(pattern)

\* text.match(pattern) for a pattern without the g flag
match(pattern, t) == IF CanMatch(pattern, t) THEN exec(pattern, t, 1) ELSE NoMatch

RECURSIVE execAll(_, _, _)
\* the loop once exec has returned m: it ends on null, and goes on from the
\* end of m otherwise
matchesFrom(pattern, t, m) ==
    IF m = NoMatch THEN <<>> ELSE <<m>> \o execAll(pattern, t, m.end)

\* the matches of `while ((match = pattern.exec(text)))` from lastIndex on:
\* each search resumes where the previous match ended
execAll(pattern, t, lastIndex) ==
    matchesFrom(pattern, t, exec(pattern, t, lastIndex))

\* every match of a pattern with the g flag, from lastIndex = 0
allMatches(pattern, t) ==
    IF CanMatch(pattern, t) THEN execAll(pattern, t, 1) ELSE <<>>

---------------------------------------------------------------------------
(* extractStructuredFields: lines and merchant *)

RECURSIVE splitLines(_, _)
\* text.split(/\r?\n/), from position `from` on: a line ends before the next
\* "\n", or before the "\r" in front of it
splitLines(t, from) ==
    LET rest == {i \in from..Len(t) : t[i] = "\n"}
        n    == Least(rest)
        e    == IF n - 1 >= from /\ t[n - 1] = "\r" THEN n - 2 ELSE n - 1
    IN  IF rest = {} THEN <<SubSeq(t, from, Len(t))>>
        ELSE <<SubSeq(t, from, e)>> \o splitLines(t, n + 1)

\* the lines without filter(Boolean)
linesOf_unfiltered(t) ==
    LET raw == splitLines(t, 1)
    IN  [k \in 1..Len(raw) |-> trim(raw[k])]

\* text.split(/\r?\n/).map(l => l.trim()).filter(Boolean)
linesOf(t) ==
    LET raw == splitLines(t, 1)
    IN  SelectSeq([k \in 1..Len(raw) |-> trim(raw[k])], LAMBDA l : l # <<>>)

MerchantMaxLen == 60

\* the string without slice(0, 60)
slice60_whole(s) == s

\* s.slice(0, 60)
slice60(s) == SubSeq(s, 1, Min(Len(s), MerchantMaxLen))

\* the match taken without replace(/\s+/g, ' ')
collapseSpaces_none(s) == s

RECURSIVE collapseSpaces(_)
\* s.replace(/\s+/g, ' ')
collapseSpaces(s) ==
    IF s = <<>> THEN <<>>
    ELSE IF IsSpace(Head(s))
         THEN <<" ">> \o collapseSpaces(SubSeq(s, 1 + SpaceRun(s, 1), Len(s)))
    ELSE <<Head(s)>> \o collapseSpaces(Tail(s))

\* the storePatterns list: each is a word, or two words with \s* between
storePatterns ==
    <<<<<<"b", "i", "l", "t", "e", "m", "a">>, <<"n", "o", "r", "g", "e">>>>,
      <<<<"b", "i", "l", "t", "e", "m", "a">>, <<>>>>,
      <<<<"a", "n", "t", "o", "n", "s", "p", "o", "r", "t">>, <<>>>>,
      <<<<"c", "o", "o", "p">>, <<"p", "r", "i", "x">>>>,
      <<<<"r", "e", "m", "a">>, <<"1", "0", "0", "0">>>>,
      <<<<"i", "c", "a">>, <<"s", "u", "p", "e", "r", "m", "a", "r", "k", "e", "t">>>>,
      <<<<"k", "i", "w", "i">>, <<>>>>,
      <<<<"b", "u", "n", "n", "p", "r", "i", "s">>, <<>>>>,
      <<<<"m", "e", "n", "y">>, <<>>>>,
      <<<<"e", "u", "r", "o", "p", "r", "i", "s">>, <<>>>>,
      <<<<"p", "l", "a", "n", "t", "a", "s", "j", "e", "n">>, <<>>>>,
      <<<<"s", "p", "o", "r", "t", "s", "h", "o", "l", "d", "i", "n", "g">>, <<>>>>>>

\* the ends of store pattern p at position i
StorePatternAt(p, t, i) ==
    IF p[2] = <<>> THEN Lit(t, i, p[1])
    ELSE FlatMap(t, FlatMap(t, Lit(t, i, p[1]), SpaceStar),
                 LAMBDA u, e : Lit(u, e, p[2]))

\* text.match(pattern) for a store pattern: the leftmost match, or NoMatch
matchStore(p, t) ==
    LET starts == {i \in 1..Len(t) :
                      ToLowerChar(t[i]) = p[1][1] /\ StorePatternAt(p, t, i) # <<>>}
        i      == Least(starts)
        e      == Head(StorePatternAt(p, t, i))
    IN  IF starts = {} THEN NoMatch
        ELSE Match(t, i, e, <<SubSeq(t, i, e - 1)>>)

\* s.includes(word) under the i flag: /word/i.test(s)
testWord(s, word) == \E i \in 1..Len(s) : Lit(s, i, word) # <<>>

Sportsholding == <<"s", "p", "o", "r", "t", "s", "h", "o", "l", "d", "i", "n", "g">>

Antonsport == <<"a", "n", "t", "o", "n", "s", "p", "o", "r", "t">>

\* the special handling turned round: the holding company is preferred
foundMerchantOf_holdingFirst(t, m) ==
    LET foundMerchant == trim(collapseSpaces(m.groups[1]))
        holdingMatch  == matchStore(<<Sportsholding, <<>>>>, t)
    IN  IF holdingMatch # NoMatch THEN holdingMatch.groups[1] ELSE foundMerchant

\* the body of the storePatterns loop for a pattern that matched with m
foundMerchantOf(t, m) ==
    LET foundMerchant  == trim(collapseSpaces(m.groups[1]))
        antonsportMatch == matchStore(<<Antonsport, <<>>>>, t)
    IN  IF testWord(foundMerchant, Sportsholding) /\ antonsportMatch # NoMatch
        THEN antonsportMatch.groups[1]
        ELSE foundMerchant

RECURSIVE storeLoop(_, _)
\* for (const pattern of storePatterns): the merchant of the first pattern
\* that matches, or NoMatch when none does
storeLoop(t, k) ==
    IF k > Len(storePatterns) THEN NoMatch
    ELSE LET m == matchStore(storePatterns[k], t)
         IN  IF m # NoMatch THEN [kind |-> "found", merchant |-> foundMerchantOf(t, m)]
             ELSE storeLoop(t, k + 1)

\* /(?:org\.?\s*nr|bus\.?\s*reg\.?\s*no)/i at position i
OptDot(t, i) == IF CharAt(t, i) = "." THEN <<i + 1, i>> ELSE <<i>>

OrgIdAt(t, i) ==
    FlatMap(t, FlatMap(t, FlatMap(t, Lit(t, i, <<"o", "r", "g">>), OptDot), SpaceStar),
            LAMBDA u, e : Lit(u, e, <<"n", "r">>))
    \o FlatMap(t,
         FlatMap(t,
           FlatMap(t,
             FlatMap(t,
               FlatMap(t, FlatMap(t, Lit(t, i, <<"b", "u", "s">>), OptDot), SpaceStar),
               LAMBDA u, e : Lit(u, e, <<"r", "e", "g">>)),
             OptDot),
           SpaceStar),
         LAMBDA u, e : Lit(u, e, <<"n", "o">>))

isOrgLine(l) ==
    \E i \in 1..Len(l) : ToLowerChar(l[i]) \in {"o", "b"} /\ OrgIdAt(l, i) # <<>>

\* lines.findIndex(...), 1-based; 0 when no line matches
orgIdxOf(lines) ==
    IF \E k \in 1..Len(lines) : isOrgLine(lines[k])
    THEN CHOOSE k \in 1..Len(lines) :
             isOrgLine(lines[k]) /\ \A j \in 1..(k - 1) : ~isOrgLine(lines[j])
    ELSE 0

\* the loop without the address test
looksLikeAddress_never(l) == FALSE

\* /^\d+\s|\d{4}\s/.test(line)
looksLikeAddress(l) ==
    \/ DigitRunAt(l, 1) >= 1 /\ IsSpace(CharAt(l, 1 + DigitRunAt(l, 1)))
    \/ \E i \in 1..Len(l) : DigitRunAt(l, i) >= 4 /\ IsSpace(CharAt(l, i + 4))

\* /(telefon|phone)/i.test(line)
mentionsPhone(l) ==
    testWord(l, <<"t", "e", "l", "e", "f", "o", "n">>) \/ testWord(l, <<"p", "h", "o", "n", "e">>)

NameLetterSet == LowerSet \cup UpperSet \cup {aelig, oslash, aring, AELIG, OSLASH, ARING}

IsNameLetter(c) == c \in NameLetterSet

\* /[a-zA-ZæøåÆØÅ]{3,}/.test(line)
hasThreeLetters(l) ==
    \E i \in 1..(Len(l) - 2) :
        IsNameLetter(l[i]) /\ IsNameLetter(l[i + 1]) /\ IsNameLetter(l[i + 2])

\* the window without its lower end: Math.max(0, orgIdx - 3) taken as 0
Max_first(a, b) == a

Max(a, b) == IF a > b THEN a ELSE b

RECURSIVE orgLoop(_, _, _, _)
\* for (let i = Math.max(0, orgIdx - 3); i < orgIdx; i++), 1-based
orgLoop(lines, i, orgIdx, merchant) ==
    IF i >= orgIdx THEN merchant
    ELSE IF /\ ~looksLikeAddress(lines[i]) /\ ~mentionsPhone(lines[i])
            /\ Len(lines[i]) > 2 /\ hasThreeLetters(lines[i])
         THEN [kind |-> "string", value |-> trim(slice60(lines[i]))]
    ELSE orgLoop(lines, i + 1, orgIdx, merchant)

\* the merchant of the record: a string or undefined
merchantOf(t) ==
    LET lines  == linesOf(t)
        first  == IF lines = <<>> THEN Undefined
                  ELSE [kind |-> "string", value |-> slice60(lines[1])]
        store  == storeLoop(t, 1)
        orgIdx == orgIdxOf(lines)
    IN  IF store # NoMatch THEN [kind |-> "string", value |-> store.merchant]
        ELSE IF orgIdx >= 1 THEN orgLoop(lines, Max(1, orgIdx - 3), orgIdx, first)
        ELSE first

---------------------------------------------------------------------------
(* extractStructuredFields: currency, VAT amount and total *)

\* let currency = 'NOK'; if (currencyMatch) currency = currencyMatch[1].toUpperCase()
currencyOf(t) ==
    LET currencyMatch == match("currency", t)
    IN  IF currencyMatch # NoMatch THEN toUpperCase(currencyMatch.groups[1])
        ELSE <<"N", "O", "K">>

vatPatterns == <<"vat0", "vat1", "vat2", "vat3", "vat4">>

\* the vatMatches array
vatMatches(t) == [k \in 1..Len(vatPatterns) |-> match(vatPatterns[k], t)]

\* vatMatch[1] in every case
vatStringOf_first(m) == m.groups[1]

\* vatMatch[2] || vatMatch[1]
vatStringOf(m) ==
    IF Len(m.groups) >= 2 /\ m.groups[2] # <<>> THEN m.groups[2] ELSE m.groups[1]

RECURSIVE vatLoop(_, _, _)
\* for (const vatMatch of vatMatches) { if (vatMatch) { vatAmount = ...;
\* if (vatAmount) break; } } from the k-th match on
vatLoop(matches, k, vatAmount) ==
    IF k > Len(matches) THEN vatAmount
    ELSE IF matches[k] = NoMatch THEN vatLoop(matches, k + 1, vatAmount)
    ELSE LET parsed == parseNorwegianCurrency(vatStringOf(matches[k]))
         IN  IF Truthy(parsed) THEN parsed ELSE vatLoop(matches, k + 1, parsed)

\* the loop without its break: the last pattern that matches decides
vatAmountOf_lastMatch(t) ==
    LET hits == {k \in 1..Len(vatPatterns) : match(vatPatterns[k], t) # NoMatch}
    IN  IF hits = {} THEN Undefined
        ELSE parseNorwegianCurrency(vatStringOf(
                 match(vatPatterns[CHOOSE k \in hits : \A j \in hits : j <= k], t)))

\* the loop started from 0 instead of undefined
vatAmountOf_zeroDefault(t) == vatLoop(vatMatches(t), 1, Zero)

vatAmountOf(t) == vatLoop(vatMatches(t), 1, Undefined)

MaxTotal == 1000000

\* the number 1_000_000
Million == Number(NatDigits(MaxTotal), <<>>)

\* total || 0
OrZero(x) == IF Truthy(x) THEN x ELSE Zero

\* the test without its ceiling
acceptsTotal_noCeiling(amt, total) ==
    Truthy(amt) /\ NumLess(OrZero(total), amt)

\* the test with its comparison turned round
acceptsTotal_smaller(amt, total) ==
    Truthy(amt) /\ NumLess(amt, OrZero(total)) /\ NumLess(amt, Million)

\* amount && amount > (total || 0) && amount < 1_000_000
acceptsTotal(amt, total) ==
    Truthy(amt) /\ NumLess(OrZero(total), amt) /\ NumLess(amt, Million)

\* if (...) { total = amount }
laterTotal(amt, total) == IF acceptsTotal(amt, total) THEN amt ELSE total

RECURSIVE foldMatches(_, _, _)
\* the while loop over the matches ms of one pattern, from the k-th on
foldMatches(ms, k, total) ==
    IF k > Len(ms) THEN total
    ELSE foldMatches(ms, k + 1,
                     laterTotal(parseNorwegianCurrency(ms[k].groups[1]), total))

totalPatterns == <<"total0", "total1", "total2">>

RECURSIVE keywordLoop(_, _, _)
\* for (const pattern of totalPatterns) { pattern.lastIndex = 0; while ... }
keywordLoop(t, k, total) ==
    IF k > Len(totalPatterns) THEN total
    ELSE keywordLoop(t, k + 1, foldMatches(allMatches(totalPatterns[k], t), 1, total))

\* max returned as it is
positiveOrUndefined_max(max) == max

\* max > 0 ? max : undefined
positiveOrUndefined(max) == IF NumLess(Zero, max) THEN max ELSE Undefined

\* the fallback without `max > 0 ? max : undefined`
fallbackTotal_zero(t) == foldMatches(allMatches("money", t), 1, Zero)

\* the fallback: the largest amount among the moneyRegex matches
fallbackTotal(t) ==
    positiveOrUndefined(foldMatches(allMatches("money", t), 1, Zero))

\* if (!total) { ... }
totalOrFallback(t, total) == IF ~Truthy(total) THEN fallbackTotal(t) ELSE total

totalOf(t) == totalOrFallback(t, keywordLoop(t, 1, Undefined))

extractStructuredFields(t) ==
    [kind      |-> "fields",
     merchant  |-> merchantOf(t),
     vatAmount |-> vatAmountOf(t),
     total     |-> totalOf(t),
     currency  |-> currencyOf(t)]

---------------------------------------------------------------------------
(* The extractor as a state machine: a receipt text is put together from   *)
(* pieces (keywords, digit groups, amounts, separators) or taken from the  *)
(* example receipts, then extractStructuredFields is called on it.         *)

MaxTotalPieces == 4

MaxVatPieces == 5

MaxCurrencyPieces == 4

TotalPieces ==
    {<<"S", "u", "m", " ">>,
     <<"1">>,
     <<".", "0", "0", "0">>,
     <<",", "0", "0", "0">>,
     <<" ", "0", "0", "0">>,
     <<",", "0", "0">>,
     <<".", "5", "0">>}

VatPieces ==
    {<<"1", ",", "0", "0", " ">>,
     <<"0", ",", "0", "0", " ">>,
     <<"1", ".", "2", "3", "4", ",", "5", "0", " ">>,
     <<"2", "5", "%", " ">>,
     <<"M", "V", "A", " ">>}

CurrencyPieces ==
    {<<"E", "U", "R">>,
     <<"u", "s", "d">>,
     <<"G", "b", "p">>,
     <<"S", "E", "K">>,
     <<"d", "k", "k">>,
     <<"N", "O", "K">>,
     <<" ">>,
     <<"x">>,
     <<"_">>}

\* receipts of the test suite and of the specification's scenarios, shortened,
\* and one-line receipts around the limits of the total and VAT rules
ExampleReceipts ==
    {<<"C", "O", "O", "P", " ", "P", "R", "I", "X", "\n", "S", "t", "o",
       "r", "g", "a", "t", "a", " ", "1", "2", "3", "\n", "O", "s", "l",
       "o", "\n", "\n", "M", "e", "l", "k", " ", "1", "2", ",", "9", "0",
       "\n", "S", "u", "m", " ", "1", "2", "8", ",", "1", "5", "\n", "M",
       "V", "A", " ", "2", "5", "%", " ", "2", "5", ",", "6", "3", "\n",
       "T", "o", "t", "a", "l", "t", " ", aring, " ", "b", "e", "t", "a",
       "l", "e", " ", "1", "2", "8", ",", "1", "5">>,
     <<"R", "E", "M", "A", " ", "1", "0", "0", "0", "\n", "D", "i", "v",
       "e", "r", "s", "e", " ", "v", "a", "r", "e", "r", " ", "1", ".",
       "2", "4", "5", ",", "8", "0", "\n", "M", "V", "A", " ", "2", "4",
       "9", ",", "1", "6", "\n", "S", "u", "m", " ", aring, " ", "b", "e",
       "t", "a", "l", "e", " ", "1", ".", "2", "4", "5", ",", "8", "0">>,
     <<"D", "u", "t", "y", " ", "F", "r", "e", "e", " ", "S", "h", "o",
       "p", "\n", "I", "t", "e", "m", " ", "1", " ", " ", "5", "0", ".",
       "0", "0", " ", "E", "U", "R", "\n", "T", "o", "t", "a", "l", " ",
       " ", "1", "2", "5", ".", "5", "0", " ", "E", "U", "R">>,
     <<"B", "a", "k", "e", "r", "i", " ", "A", "S", "\n", "G", "a", "t",
       "e", "v", "e", "i", "e", "n", " ", "4", "5", "\n", "0", "1", "2",
       "3", " ", "O", "s", "l", "o", "\n", "O", "r", "g", ".", "n", "r",
       ":", " ", "1", "2", "3", "4", "5", "6", "7", "8", "9", "\n", "S",
       "u", "m", " ", " ", "5", "5", ",", "0", "0">>,
     <<"A", "N", "T", "O", "N", "S", "P", "O", "R", "T", "\n", "1", "5",
       "9", "9", ".", "2", "0", " ", "2", "5", "%", " ", "3", "9", "9",
       ".", "8", "0", " ", "1", "9", "9", "9", ".", "0", "0", "\n", "B",
       "a", "n", "k", ":", " ", "1", "9", "9", "9", ".", "0", "0">>,
     <<"M", "e", "l", "k", " ", "1", "2", ",", "9", "0", "\n", "S", "u",
       "m", " ", "5", ",", "0", "0">>,
     <<"S", "u", "m", " ", "1", ",", "0", "0", "\n", "T", "o", "t", "a",
       "l", ":", " ", "2", ".", "5", "0">>,
     <<"S", "u", "m", " ", "1", ".", "0", "0", "0", ".", "0", "0", "0",
       ",", "0", "0">>,
     <<"T", "o", "t", "a", "l", " ", "1", ",", "0", "0", "0", ",", "0",
       "0", "0", ".", "0", "0">>,
     <<"S", "u", "m", " ", "1", " ", "0", "0", "0", " ", "0", "0", "0",
       ",", "0", "0">>,
     <<"S", "u", "m", " ", "1", "0", "0", "0", "0", "0", "0", ",", "0", "0">>,
     <<"1", "0", "0", "0", "0", "0", "0", ",", "0", "0">>,
     <<"b", "a", "n", "k", ":", " ", "1", ".", "0", "0", "0", ".", "0",
       "0", "0", ",", "0", "0">>,
     <<"1", ".", "0", "0", "0", ".", "0", "0", "0", ",", "0", "0", " ",
       "s", "u", "m">>,
     <<"S", "u", "m", " ", "9", "9", "9", ".", "9", "9", "9", ",", "9", "9">>,
     <<"M", "e", "l", "k", " ", "3", ",", "5", "0", "\n", "B", "r", "u",
       "s", " ", "1", "2", "0", ",", "0", "0">>,
     <<"H", "e", "r", "a", "v", " ", "m", "v", "a", " ", "8", "2", ".",
       "1", "0", "\n", "V", "A", "T", " ", "5", ",", "0", "0">>,
     <<"1", "0", "0", ",", "0", "0", " ", "2", "5", "%", " ", "0", ",",
       "0", "0", " ", "1", "0", "0", ",", "0", "0", "\n", "M", "V", "A",
       " ", "7", ",", "5", "0">>,
     <<"M", "V", "A", " ", "0", ",", "0", "0">>,
     <<"P", "r", "i", "s", " ", "1", "0", " ", "u", "s", "d", " ", "e",
       "l", "l", "e", "r", " ", "9", " ", "E", "U", "R">>,
     <<"A", "b", "c", "\n", "D", "e", "f", "g", "\n", "G", "h", "i", "j",
       "\n", "K", "l", "m", "n", "\n", "O", "r", "g", ".", "n", "r", ":",
       " ", "1">>,
     <<"\n", " ", "\r", "\n", "K", "a", "f", "e", " ", "x", "x", "x", "x",
       "x", "x", "x", "x", "x", "x", "x", "x", "x", "x", "x", "x", "x",
       "x", "x", "x", "x", "x", "x", "x", "x", "x", "x", "x", "x", "x",
       "x", "x", "x", "x", "x", "x", "x", "x", "x", "x", "x", "x", "x",
       "x", "x", "x", "x", "x", "x", "x", "x", "x", "x", "x", "x", "x",
       "x", "x", "x", "x", " ", "1", "2", ",", "5", "0", "\n", "T", "a",
       "k", "k">>,
     <<"K", "r", "o", "\n", "x", "x", "x", "x", "x", "x", "x", "x", "x",
       "x", "x", "x", "x", "x", "x", "x", "x", "x", "x", "x", "x", "x",
       "x", "x", "x", "x", "x", "x", "x", "x", "x", "x", "x", "x", "x",
       "x", "x", "x", "x", "x", "x", "x", "x", "x", "x", "x", "x", "x",
       "x", "x", "x", "x", "x", "x", "x", "x", "x", "x", "x", " ", "y",
       "y", "\n", "O", "r", "g", ".", "n", "r", " ", "9">>,
     <<"V", "e", "l", "k", "o", "m", "m", "e", "n", " ", "t", "i", "l",
       " ", "R", "e", "m", "a", " ", "\t", " ", "1", "0", "0", "0", " ",
       "i", " ", "d", "a", "g", "\n", "O", "r", "g", ".", "n", "r", " ", "9">>,
     <<"S", "p", "o", "r", "t", "s", "h", "o", "l", "d", "i", "n", "g",
       " ", "A", "S", "\n", "K", "v", "i", "t", "t", "e", "r", "i", "n",
       "g", " ", "A", "N", "T", "O", "N", "S", "P", "O", "R", "T", " ",
       "O", "s", "l", "o">>,
     <<"S", "P", "O", "R", "T", "S", "H", "O", "L", "D", "I", "N", "G",
       " ", "A", "S", "\n", "O", "r", "g", ".", "n", "r", " ", "9">>,
     <<"A", "B", "\n", "T", "e", "l", "e", "f", "o", "n", " ", "1", "2",
       "\n", "0", "1", "2", "3", " ", "O", "s", "l", "o", "\n", "O", "r",
       "g", " ", "n", "r", " ", "5">>,
     <<"A", "b", "c", " ", "1", "2", "3", "4", "5", " ", "x", "\n", "D",
       "e", "f", "\n", "B", "u", "s", ".", " ", "R", "e", "g", ".", " ",
       "N", "o", " ", "5">>,
     <<"b", "l", aring, "b", aelig, "r", "\n", "1", "2", " ", oslash, "r",
       "e", "\n", "o", "r", "g", ".", "n", "r">>,
     <<" ", "\n", "\t", "\r", "\n", " ">>,
     <<"O", "r", "g", ".", "n", "r", " ", "1", "\n", "A", "b", "c">>,
     <<"M", "V", "A", " ", "2", "5", "1", ",", "5", "0">>,
     <<"V", "A", "T", " ", "2", "5", "0", "0", ",", "0", "0">>,
     <<"M", "V", "A", " ", "2", "5", "0", "0", ",", "0", "0">>,
     <<"B", "r", "u", "s", " ", "1", "2", "0", ",", "0", "0", "\n", "S",
       "u", "m", " ", "5", ",", "0", "0", "\n", "M", "V", "A", " ", "1",
       ",", "0", "0">>,
     <<"S", "u", "m", " ", "1", ",", "0", "0", "\n", "T", "o", "t", "a",
       "l", "\n", "9", "9", "9", ",", "0", "0">>,
     <<"A", "b", "c", "\n", "1", "2", " ", "a", "\n", "3", "4", " ", "b",
       "\n", "5", "6", " ", "c", "\n", "O", "r", "g", ".", "n", "r", " ",
       "1">>,
     <<"A", "n", "t", "a", "l", "l", " ", "2", "\n", "1", "5", "0", ",",
       "0", "0">>,
     <<"S", "u", "m", " ", "1", "\n", "0", "0", "0", ",", "0", "0">>}

\* the scan position left behind if a failing exec did not reset it
lastIndexAfterLoop_kept(pattern, t) ==
    LET ms == allMatches(pattern, t)
    IN  IF ms = <<>> THEN 1 ELSE ms[Len(ms)].end

\* pattern.lastIndex (1-based) once `while ((match = pattern.exec(text)))`
\* has ended: the exec that returns null sets lastIndex to 0
lastIndexAfterLoop(pattern, t) == 1

Init ==
    /\ moneyStr = <<>>
    /\ amount = NotCalled
    /\ text = <<>>
    /\ written = 0
    /\ fields = NoFields
    /\ regexLastIndex = [pattern \in {"total0", "total1", "total2", "money"} |-> 1]
    /\ log = <<>>

Write(piece) ==
    /\ fields = NoFields
    /\ text' = text \o piece
    /\ written' = written + 1
    /\ UNCHANGED <<moneyStr, amount, fields, regexLastIndex, log>>

\* a whole receipt is taken as the text; nothing is written after it
UseReceipt(pieces) ==
    /\ fields = NoFields
    /\ written = 0
    /\ text' \in ExampleReceipts
    /\ written' = pieces
    /\ UNCHANGED <<moneyStr, amount, fields, regexLastIndex, log>>

Extract ==
    /\ fields = NoFields
    /\ fields' = extractStructuredFields(text)
    /\ regexLastIndex' =
           [pattern \in DOMAIN regexLastIndex |-> lastIndexAfterLoop(pattern, text)]
    /\ UNCHANGED <<moneyStr, amount, text, written, log>>

WriteTotal ==
    /\ written < MaxTotalPieces
    /\ \E piece \in TotalPieces : Write(piece)

NextTotal == WriteTotal \/ UseReceipt(MaxTotalPieces) \/ Extract

SpecTotal == Init /\ [][NextTotal]_vars

WriteVat ==
    /\ written < MaxVatPieces
    /\ \E piece \in VatPieces : Write(piece)

NextVat == WriteVat \/ UseReceipt(MaxVatPieces) \/ Extract

SpecVat == Init /\ [][NextVat]_vars

WriteCurrency ==
    /\ written < MaxCurrencyPieces
    /\ \E piece \in CurrencyPieces : Write(piece)

NextCurrency == WriteCurrency \/ UseReceipt(MaxCurrencyPieces) \/ Extract

SpecCurrency == Init /\ [][NextCurrency]_vars

MaxMerchantPieces == 4

MerchantPieces ==
    {<<"A", "b", "c", "\n">>,
     <<"D", "e", "f", "g", "\n">>,
     <<"1", " ", "s", "t", "k", " ", "2", ",", "5", "0", "\n">>,
     <<"O", "r", "g", ".", "n", "r", "\n">>,
     <<"k", "i", "w", "i", " ">>,
     <<"M", "E", "N", "Y", "\n">>,
     <<" ", "\t", "\r", "\n">>}

WriteMerchant ==
    /\ written < MaxMerchantPieces
    /\ \E piece \in MerchantPieces : Write(piece)

NextMerchant == WriteMerchant \/ UseReceipt(MaxMerchantPieces) \/ Extract

SpecMerchant == Init /\ [][NextMerchant]_vars

MaxHoldingPieces == 3

\* parent company, subsidiary, a store listed before the subsidiary, a store
\* listed after it, and an org-ID line
HoldingPieces ==
    {<<"S", "P", "O", "R", "T", "S", "H", "O", "L", "D", "I", "N", "G",
       " ", "A", "S", "\n">>,
     <<"A", "n", "t", "o", "n", "s", "p", "o", "r", "t", " ">>,
     <<"A", "N", "T", "O", "N">>,
     <<"B", "i", "l", "t", "e", "m", "a", " ">>,
     <<"k", "i", "w", "i", " ">>,
     <<"O", "r", "g", ".", "n", "r", " ", "9", "\n">>}

WriteHolding ==
    /\ written < MaxHoldingPieces
    /\ \E piece \in HoldingPieces : Write(piece)

NextHolding == WriteHolding \/ UseReceipt(MaxHoldingPieces) \/ Extract

SpecHolding == Init /\ [][NextHolding]_vars

---------------------------------------------------------------------------
(* Calls in sequence: the two functions are called one after the other, in *)
(* any order and on any of a few inputs; the log keeps what each call was   *)
(* given and what it returned.                                              *)

MaxCalls == 3

CallParse ==
    /\ Len(log) < MaxCalls
    /\ \E token \in
        {<<"1", ".", "2", "3", "4", ",", "5", "6">>,
         <<"1", "2", ",", "5">>,
         <<"a", "b", "c">>} :
          /\ moneyStr' = token
          /\ amount' = parseNorwegianCurrency(token)
          /\ log' = Append(log, [fn |-> "parseNorwegianCurrency", input |-> token,
                                 result |-> parseNorwegianCurrency(token)])
    /\ UNCHANGED <<text, written, fields, regexLastIndex>>

CallExtract ==
    /\ Len(log) < MaxCalls
    /\ \E t \in
        {<<"S", "u", "m", " ", "1", ",", "0", "0", "\n", "T", "o", "t",
           "a", "l", ":", " ", "2", ".", "5", "0">>,
         <<"M", "e", "l", "k", " ", "3", ",", "5", "0", "\n", "B", "r",
           "u", "s", " ", "1", "2", "0", ",", "0", "0">>,
         <<"M", "V", "A", " ", "0", ",", "0", "0">>,
         <<>>} :
          /\ text' = t
          /\ fields' = extractStructuredFields(t)
          /\ regexLastIndex' =
             [pattern \in DOMAIN regexLastIndex |-> lastIndexAfterLoop(pattern, t)]
          /\ log' = Append(log, [fn |-> "extractStructuredFields", input |-> t,
                                 result |-> extractStructuredFields(t)])
    /\ UNCHANGED <<moneyStr, amount, written>>

NextCalls == CallParse \/ CallExtract

SpecCalls == Init /\ [][NextCalls]_vars

---------------------------------------------------------------------------
(* Properties of parseNorwegianCurrency *)

DigitsOf(s) == SelectSeq(s, IsDigit)

Count(s, c) == Len(SelectSeq(s, LAMBDA x : x = c))

Called == amount # NotCalled

\* both separators occur, and one kind occurs once, after every occurrence
\* of the other kind; the token holds a digit
BothWithSingleLast(t) ==
    /\ includes(t, ",") /\ includes(t, ".")
    /\ \E k \in 1..Len(t) : IsDigit(t[k])
    /\ \/ Count(t, ",") = 1 /\ lastIndexOf(t, ",") > lastIndexOf(t, ".")
       \/ Count(t, ".") = 1 /\ lastIndexOf(t, ".") > lastIndexOf(t, ",")

LastSeparatorPos(t) ==
    IF lastIndexOf(t, ",") > lastIndexOf(t, ".")
    THEN lastIndexOf(t, ",") ELSE lastIndexOf(t, ".")

SplitAtLastSeparator(t) ==
    Number(DigitsOf(SubSeq(t, 1, LastSeparatorPos(t) - 1)),
           DigitsOf(SubSeq(t, LastSeparatorPos(t) + 1, Len(t))))

\* C1: a token with both ',' and '.', one kind occurring once and last, is
\* read with that last separator as the decimal point: the digits before it
\* are the integer part, the digits after it the fraction.
C1_LastSeparatorIsDecimal ==
    (Called /\ BothWithSingleLast(moneyStr))
        => amount = SplitAtLastSeparator(moneyStr)

\* a parsed token with two dots before its only comma, and digits on both sides
C1_Witness ==
    /\ Called /\ BothWithSingleLast(moneyStr)
    /\ Count(moneyStr, ".") = 2 /\ Count(moneyStr, ",") = 1
    /\ IsNumber(amount) /\ amount.int # <<>> /\ amount.frac # <<>>

\* t is digits, sep, two digits: the shape D<sep>DD
IsCanonical(t, sep) ==
    /\ Len(t) >= 4
    /\ t[Len(t) - 2] = sep
    /\ \A k \in 1..Len(t) : k # Len(t) - 2 => IsDigit(t[k])
    /\ t = FormatAmount(DigitsValue(DigitsOf(t)), sep)

\* C2: an amount v of two decimals written D.DD or D,DD parses back to v
\* (0.00 and 0,00 give the number 0, not undefined).
C2_RoundTrip ==
    \A sep \in {".", ","} :
        (Called /\ IsCanonical(moneyStr, sep))
            => /\ IsNumber(amount)
               /\ Len(amount.frac) <= 2
               /\ CentsOf(amount) = DigitsValue(DigitsOf(moneyStr))

\* the zero amount written 0,00 has been parsed, and so has 1234,56
C2_Witness ==
    /\ Called
    /\ IsCanonical(moneyStr, ",")
    /\ DigitsValue(DigitsOf(moneyStr)) \in {0, 123456}

\* digits with one kind of separator, and not exactly two digits after the last
OneKindNotTwoDigits(t) ==
    \E sep \in {",", "."} :
        /\ includes(t, sep)
        /\ \A k \in 1..Len(t) : IsDigit(t[k]) \/ t[k] = sep
        /\ \E k \in 1..Len(t) : IsDigit(t[k])
        /\ Len(t) - lastIndexOf(t, sep) # 2

\* C3: digits with one kind of separator and zero, one, three or more digits
\* after the last one give the integer formed by all the digits.
C3_ThousandsOnly ==
    (Called /\ OneKindNotTwoDigits(moneyStr))
        => amount = Number(DigitsOf(moneyStr), <<>>)

\* a parsed token with two dots and a single digit after the last one
C3_Witness ==
    /\ Called /\ OneKindNotTwoDigits(moneyStr)
    /\ Count(moneyStr, ".") = 2
    /\ Len(moneyStr) - lastIndexOf(moneyStr, ".") = 1
    /\ IsNumber(amount) /\ Len(amount.int) = 3

\* C4: a call ends with a number or with undefined, and with undefined for
\* the empty string, white space only, and every token without a digit.
C4_NoDigitIsUndefined ==
    Called =>
        /\ amount.kind \in {"number", "undefined"}
        /\ DigitsOf(moneyStr) = <<>> => amount = Undefined

\* a parsed token of letters, dots and commas without a digit
C4_Witness ==
    /\ Called /\ DigitsOf(moneyStr) = <<>>
    /\ includes(moneyStr, "a") /\ includes(moneyStr, ".") /\ includes(moneyStr, ",")
    /\ amount = Undefined

---------------------------------------------------------------------------
(* Properties of extractStructuredFields: total *)

Extracted == fields # NoFields

\* 0 < x < 1,000,000, read off the digits
InOpenRange(x) ==
    IsNumber(x) /\ (x.int # <<>> \/ x.frac # <<>>) /\ Len(x.int) <= 6

ValidOf(S) == {v \in S : InOpenRange(v)}

IsMaxOf(x, S) == x \in S /\ \A v \in S : ~NumLess(x, v)

\* the values of the captures of every match of a pattern
ValuesOf(pattern, t) ==
    LET ms == allMatches(pattern, t)
    IN  {parseNorwegianCurrency(ms[k].groups[1]) : k \in 1..Len(ms)}

KeywordValues(t) ==
    ValuesOf("total0", t) \cup ValuesOf("total1", t) \cup ValuesOf("total2", t)

\* every substring of t that is money-shaped as a whole
MoneySubstrings(t) ==
    UNION {LET ends == Money(t, i)
           IN  {SubSeq(t, i, ends[k] - 1) : k \in 1..Len(ends)} :
              i \in 1..Len(t)}

\* C5: the total of every result is absent or lies strictly between 0 and
\* 1,000,000, in the keyword phase and in the fallback phase.
C5_TotalInRange ==
    Extracted => (fields.total = Undefined \/ InOpenRange(fields.total))

\* a keyword-anchored 1,000,000 was found and no total was returned
C5_Witness ==
    /\ Extracted
    /\ Million \in KeywordValues(text)
    /\ fields.total = Undefined

\* C6: when some keyword-anchored match has a value in (0, 1,000,000), the
\* total is the largest such value over the three patterns, whatever other
\* money-shaped numbers the text holds.
C6_KeywordMaximum ==
    Extracted =>
        LET V == ValidOf(KeywordValues(text))
        IN  V # {} => IsMaxOf(fields.total, V)

\* the total is a keyword-anchored value although the scan of the money
\* pattern finds a larger valid amount in the text
C6_Witness ==
    /\ Extracted
    /\ ValidOf(KeywordValues(text)) # {}
    /\ \E v \in ValidOf(ValuesOf("money", text)) : NumLess(fields.total, v)

\* C7 as stated: without a valid keyword value, the total is the largest
\* valid value over EVERY money-shaped substring of the text, or absent.
C7_EverySubstring ==
    (Extracted /\ ValidOf(KeywordValues(text)) = {})
        => LET V == ValidOf({parseNorwegianCurrency(sub) : sub \in MoneySubstrings(text)})
           IN  IF V = {} THEN fields.total = Undefined ELSE IsMaxOf(fields.total, V)

\* C7, amended: without a valid keyword value, the total is the largest valid
\* value over the matches that the left-to-right scan of the money pattern
\* finds (each search resuming where the previous match ended), or absent
\* when no match has a valid value.
C7_ScanMaximum ==
    (Extracted /\ ValidOf(KeywordValues(text)) = {})
        => LET V == ValidOf(ValuesOf("money", text))
           IN  IF V = {} THEN fields.total = Undefined ELSE IsMaxOf(fields.total, V)

\* the fallback chose the larger of two valid amounts, the later one
C7_Witness ==
    /\ Extracted
    /\ KeywordValues(text) = {}
    /\ Len(allMatches("money", text)) = 2
    /\ fields.total = parseNorwegianCurrency(allMatches("money", text)[2].groups[1])
    /\ InOpenRange(parseNorwegianCurrency(allMatches("money", text)[1].groups[1]))
    /\ NumLess(parseNorwegianCurrency(allMatches("money", text)[1].groups[1]),
               fields.total)

---------------------------------------------------------------------------
(* Properties of extractStructuredFields: VAT amount *)

RECURSIVE NonSpaceRun(_, _)
NonSpaceRun(t, i) ==
    IF i <= Len(t) /\ ~IsSpace(t[i]) THEN 1 + NonSpaceRun(t, i + 1) ELSE 0

\* the white-space delimited word that starts at i
WordFrom(t, i) == SubSeq(t, i, i + NonSpaceRun(t, i) - 1)

RECURSIVE NonSpaceRunBack(_, _)
NonSpaceRunBack(t, i) ==
    IF i >= 1 /\ ~IsSpace(t[i]) THEN 1 + NonSpaceRunBack(t, i - 1) ELSE 0

RECURSIVE SpaceRunBack(_, _)
SpaceRunBack(t, i) ==
    IF i >= 1 /\ IsSpace(t[i]) THEN 1 + SpaceRunBack(t, i - 1) ELSE 0

\* the white-space delimited word that ends at i
WordUpTo(t, i) == SubSeq(t, i - NonSpaceRunBack(t, i) + 1, i)

\* 1 to 4 digits, groups of a separator and 3 digits, a separator, 2 digits
IsAmountWord(w) ==
    /\ Len(w) >= 4
    /\ w[Len(w) - 2] \in {".", ","} /\ IsDigit(w[Len(w) - 1]) /\ IsDigit(w[Len(w)])
    /\ \E lead \in 1..4 :
          /\ (Len(w) - 3 - lead) % 4 = 0
          /\ \A k \in 1..(Len(w) - 3) :
                IF k > lead /\ (k - lead) % 4 = 1
                THEN w[k] \in {".", ","} ELSE IsDigit(w[k])

\* the word 25% stands at p, an amount word before it and one after it
BreakdownAt(t, p) ==
    /\ p + 2 <= Len(t)
    /\ SubSeq(t, p, p + 2) = <<"2", "5", "%">>
    /\ SpaceRunBack(t, p - 1) >= 1
    /\ IsAmountWord(WordUpTo(t, p - 1 - SpaceRunBack(t, p - 1)))
    /\ SpaceRun(t, p + 3) >= 1
    /\ IsAmountWord(WordFrom(t, p + 3 + SpaceRun(t, p + 3)))

Breakdowns(t) == {p \in 1..Len(t) : BreakdownAt(t, p)}

\* the second number of the first breakdown of t
SecondNumber(t) ==
    LET p == Least(Breakdowns(t))
    IN  WordFrom(t, p + 3 + SpaceRun(t, p + 3))

\* C8 as stated: with a VAT breakdown '<base> 25% <vat> ...' in the text,
\* vatAmount is the normalized second number of the breakdown.
C8_SecondNumber ==
    (Extracted /\ Breakdowns(text) # {})
        => fields.vatAmount = parseNorwegianCurrency(SecondNumber(text))

\* C8, amended: with a VAT breakdown in the text whose second number does
\* not normalize to zero, vatAmount is the normalized second number of the
\* first breakdown, whatever MVA/VAT keywords stand elsewhere.
C8_NonZeroSecondNumber ==
    (/\ Extracted
     /\ Breakdowns(text) # {}
     /\ parseNorwegianCurrency(SecondNumber(text)) # Zero)
        => fields.vatAmount = parseNorwegianCurrency(SecondNumber(text))

\* a breakdown with three different numbers, and an MVA keyword with yet
\* another amount elsewhere: vatAmount is the second number
C8_Witness ==
    /\ Extracted
    /\ Breakdowns(text) # {}
    /\ fields.vatAmount = parseNorwegianCurrency(SecondNumber(text))
    /\ fields.vatAmount # Zero
    /\ match("vat0", text) # NoMatch
    /\ parseNorwegianCurrency(match("vat0", text).groups[1]) # fields.vatAmount
    /\ match("vat2", text) # NoMatch
    /\ parseNorwegianCurrency(match("vat2", text).groups[1]) # fields.vatAmount

\* C9 as stated: vatAmount is absent or strictly positive, never the number 0.
C9_VatAbsentOrPositive ==
    Extracted =>
        (fields.vatAmount = Undefined
            \/ (IsNumber(fields.vatAmount) /\ fields.vatAmount # Zero))

---------------------------------------------------------------------------
(* Properties of extractStructuredFields: currency *)

CodesLower ==
    {<<"e", "u", "r">>, <<"u", "s", "d">>, <<"g", "b", "p">>,
     <<"s", "e", "k">>, <<"d", "k", "k">>, <<"n", "o", "k">>}

CodesUpper ==
    {<<"E", "U", "R">>, <<"U", "S", "D">>, <<"G", "B", "P">>,
     <<"S", "E", "K">>, <<"D", "K", "K">>, <<"N", "O", "K">>}

Lowered(w) == [k \in 1..Len(w) |-> ToLowerChar(w[k])]

\* a code stands at i as a whole word, in any letter case
CodeAt(t, i) ==
    /\ i + 2 <= Len(t)
    /\ Lowered(SubSeq(t, i, i + 2)) \in CodesLower
    /\ ~IsWordChar(CharAt(t, i - 1))
    /\ ~IsWordChar(CharAt(t, i + 3))

CodePositions(t) == {i \in 1..Len(t) : CodeAt(t, i)}

\* C10: the currency is one of the six codes in upper case: the leftmost
\* whole-word occurrence of a code in the text, in any letter case, and NOK
\* when no code occurs.
C10_LeftmostCurrency ==
    Extracted =>
        /\ fields.currency \in CodesUpper
        /\ IF CodePositions(text) = {}
           THEN fields.currency = <<"N", "O", "K">>
           ELSE Lowered(fields.currency)
                    = Lowered(SubSeq(text, Least(CodePositions(text)),
                                     Least(CodePositions(text)) + 2))

\* two different codes occur, the first in lower case, and the first wins
C10_Witness ==
    /\ Extracted
    /\ \E i, j \in CodePositions(text) :
          /\ i < j
          /\ i = Least(CodePositions(text))
          /\ IsLower(text[i])
          /\ Lowered(SubSeq(text, i, i + 2)) # Lowered(SubSeq(text, j, j + 2))
          /\ Lowered(fields.currency) = Lowered(SubSeq(text, i, i + 2))
          /\ fields.currency # <<"N", "O", "K">>

---------------------------------------------------------------------------
(* Properties of extractStructuredFields: merchant *)

\* the word w (lower case) stands at i of t, in any letter case
WordAt(t, i, w) ==
    /\ i >= 1
    /\ i + Len(w) - 1 <= Len(t)
    /\ \A k \in 1..Len(w) : ToLowerChar(t[i + k - 1]) = w[k]

\* the numbers n such that store pattern p occurs at i of t with n white
\* space characters between its two words (0 for a pattern of one word)
StoreGaps(p, t, i) ==
    IF ~WordAt(t, i, p[1]) THEN {}
    ELSE {n \in 0..(IF p[2] = <<>> THEN 0 ELSE Len(t)) :
             /\ \A k \in 1..n : IsSpace(CharAt(t, i + Len(p[1]) + k - 1))
             /\ WordAt(t, i + Len(p[1]) + n, p[2])}

StorePositions(p, t) == {i \in 1..Len(t) : StoreGaps(p, t, i) # {}}

StoresIn(t) == {k \in 1..Len(storePatterns) : StorePositions(storePatterns[k], t) # {}}

\* the leftmost occurrence of store pattern p in t, its white space
\* collapsed to one space
StoreNameIn(p, t) ==
    LET i == Least(StorePositions(p, t))
        n == Least(StoreGaps(p, t, i))
    IN  SubSeq(t, i, i + Len(p[1]) - 1)
            \o (IF n > 0 THEN <<" ">> ELSE <<>>)
            \o SubSeq(t, i + Len(p[1]) + n, i + Len(p[1]) + n + Len(p[2]) - 1)

HasMerchant == fields.merchant # Undefined

\* C11: when a known-store pattern occurs in the text, merchant is the
\* occurrence of the first pattern of the list that occurs (letter case of
\* the text, white space collapsed), wherever it stands and whatever the
\* first line and the org-ID lines are.
C11_StoreFirst ==
    Extracted =>
        LET stores == StoresIn(text)
        IN  stores # {} =>
               /\ HasMerchant
               /\ fields.merchant.value
                      = StoreNameIn(storePatterns[Least(stores)], text)

\* two store patterns occur, the one later in the list stands first in the
\* text and on the first line, and merchant is the other one
C11_Witness ==
    /\ Extracted
    /\ \E j, k \in StoresIn(text) :
          /\ j = Least(StoresIn(text))
          /\ j < k
          /\ Least(StorePositions(storePatterns[k], text)) = 1
          /\ Least(StorePositions(storePatterns[j], text)) > 1
          /\ HasMerchant
          /\ fields.merchant.value = StoreNameIn(storePatterns[j], text)
          /\ fields.merchant.value # slice60(linesOf(text)[1])

\* the line starts with digits followed by white space
StartsWithNumber(l) ==
    \E n \in 1..(Len(l) - 1) :
        (\A k \in 1..n : IsDigit(l[k])) /\ IsSpace(l[n + 1])

\* four digits in a row are followed by white space
HasFourDigits(l) ==
    \E i \in 1..(Len(l) - 4) :
        (\A k \in 0..3 : IsDigit(l[i + k])) /\ IsSpace(l[i + 4])

NamesPhone(l) ==
    \E i \in 1..Len(l) :
        \/ WordAt(l, i, <<"t", "e", "l", "e", "f", "o", "n">>)
        \/ WordAt(l, i, <<"p", "h", "o", "n", "e">>)

ThreeLettersInARow(l) ==
    \E i \in 1..(Len(l) - 2) : \A k \in 0..2 : l[i + k] \in NameLetterSet

Qualifies(l) ==
    /\ ~StartsWithNumber(l)
    /\ ~HasFourDigits(l)
    /\ ~NamesPhone(l)
    /\ Len(l) > 2
    /\ ThreeLettersInARow(l)

OrgLines(lines) == {k \in 1..Len(lines) : isOrgLine(lines[k])}

\* the qualifying lines among the up to 3 lines before the first org-ID line
QualifyingAbove(lines) ==
    LET org == Least(OrgLines(lines))
    IN  {k \in 1..(org - 1) : k >= org - 3 /\ Qualifies(lines[k])}

Greatest(S) == CHOOSE x \in S : \A y \in S : y <= x

\* the first 60 characters of a line, trimmed
Shortened(l) == trim(SubSeq(l, 1, IF Len(l) < 60 THEN Len(l) ELSE 60))

\* no store pattern occurs, there is an org-ID line, and a line qualifies
\* among the up to 3 lines before the first one
OrgCase ==
    /\ Extracted
    /\ StoresIn(text) = {}
    /\ OrgLines(linesOf(text)) # {}
    /\ QualifyingAbove(linesOf(text)) # {}

\* C12 as stated: in the org-ID case merchant is the NEAREST qualifying line
\* above the first org-ID line (shortened to 60 characters).
C12_NearestQualifying ==
    OrgCase =>
        /\ HasMerchant
        /\ fields.merchant.value
              = Shortened(linesOf(text)[Greatest(QualifyingAbove(linesOf(text)))])

\* C12, amended: in the org-ID case merchant is the first qualifying line in
\* text order (the one farthest above the org-ID line) among the up to 3
\* lines before the first org-ID line, shortened to 60 characters and trimmed.
C12_FirstQualifying ==
    OrgCase =>
        /\ HasMerchant
        /\ fields.merchant.value
              = Shortened(linesOf(text)[Least(QualifyingAbove(linesOf(text)))])

\* two different lines qualify, and merchant is the upper one
C12_Witness ==
    /\ OrgCase
    /\ HasMerchant
    /\ LET lines == linesOf(text)
           Q     == QualifyingAbove(lines)
       IN  /\ lines[Least(Q)] # lines[Greatest(Q)]
           /\ fields.merchant.value = lines[Least(Q)]

Blank(t) == \A k \in 1..Len(t) : IsSpace(t[k])

\* the first line of t that holds a character other than white space,
\* without the white space at its two ends
FirstLine(t) ==
    LET from   == Least({k \in 1..Len(t) : ~IsSpace(t[k])})
        breaks == {k \in from..Len(t) : t[k] = "\n"}
        stop   == IF breaks = {} THEN Len(t) ELSE Least(breaks) - 1
        to     == Greatest({k \in from..stop : ~IsSpace(t[k])})
    IN  SubSeq(t, from, to)

FirstSixty(l) == SubSeq(l, 1, IF Len(l) < 60 THEN Len(l) ELSE 60)

\* no store pattern occurs and no line is an org-ID line
FallbackCase ==
    /\ Extracted
    /\ StoresIn(text) = {}
    /\ OrgLines(linesOf(text)) = {}

\* C13: without a store pattern and without an org-ID line, merchant is the
\* first 60 characters of the first non-empty trimmed line; merchant is
\* absent exactly when the text has no non-empty line, so a result with a
\* total or a vatAmount has a merchant.
C13_FirstLineFallback ==
    /\ (FallbackCase /\ ~Blank(text))
          => (HasMerchant /\ fields.merchant.value = FirstSixty(FirstLine(text)))
    /\ Extracted => (~HasMerchant <=> Blank(text))
    /\ (Extracted /\ (fields.total # Undefined \/ fields.vatAmount # Undefined))
          => HasMerchant

\* the text starts with blank lines, its first non-empty line is longer
\* than 60 characters, and total and merchant are both returned
C13_Witness ==
    /\ FallbackCase
    /\ ~Blank(text)
    /\ IsSpace(text[1])
    /\ Len(FirstLine(text)) > 60
    /\ fields.total # Undefined
    /\ HasMerchant
    /\ fields.merchant.value = FirstSixty(FirstLine(text))

---------------------------------------------------------------------------
(* Properties of extractStructuredFields: the record *)

IsOptionalString(x) ==
    x = Undefined \/ (x.kind = "string" /\ DOMAIN x.value = 1..Len(x.value))

IsOptionalNumber(x) == x = Undefined \/ IsNumber(x)

\* C14: the call on any text returns a record of an optional merchant,
\* optional amounts and a currency code; for a text without any character
\* other than white space it returns no merchant, no vatAmount, no total and
\* the currency NOK.
C14_AlwaysARecord ==
    Extracted =>
        /\ fields.kind = "fields"
        /\ IsOptionalString(fields.merchant)
        /\ IsOptionalNumber(fields.vatAmount)
        /\ IsOptionalNumber(fields.total)
        /\ fields.currency \in CodesUpper
        /\ Blank(text) =>
              /\ fields.merchant = Undefined
              /\ fields.vatAmount = Undefined
              /\ fields.total = Undefined
              /\ fields.currency = <<"N", "O", "K">>

\* a text of blank lines was extracted to the record of the default currency
C14_Witness ==
    /\ Extracted
    /\ Len(text) > 4
    /\ Blank(text)
    /\ fields = [kind |-> "fields", merchant |-> Undefined, vatAmount |-> Undefined,
                 total |-> Undefined, currency |-> <<"N", "O", "K">>]

\* x is parseNorwegianCurrency of a substring of t (one that starts and ends
\* with a digit)
FromSubstring(x, t) ==
    \E i \in 1..Len(t) :
        /\ IsDigit(t[i])
        /\ \E j \in i..Len(t) :
              IsDigit(t[j]) /\ parseNorwegianCurrency(SubSeq(t, i, j)) = x

\* C15: a vatAmount and a total that are returned are each the value of
\* parseNorwegianCurrency on some contiguous substring of the text.
C15_Provenance ==
    Extracted =>
        /\ fields.vatAmount # Undefined => FromSubstring(fields.vatAmount, text)
        /\ fields.total # Undefined => FromSubstring(fields.total, text)

\* a vatAmount and a different total are returned, neither of them the
\* value of the whole text
C15_Witness ==
    /\ Extracted
    /\ IsNumber(fields.vatAmount)
    /\ IsNumber(fields.total)
    /\ fields.vatAmount # fields.total
    /\ parseNorwegianCurrency(text) \notin {fields.vatAmount, fields.total}
    /\ FromSubstring(fields.vatAmount, text)
    /\ FromSubstring(fields.total, text)

---------------------------------------------------------------------------
(* Properties of sequences of calls *)

\* what the function named fn returns on input x
ResultOf(fn, x) ==
    IF fn = "parseNorwegianCurrency" THEN parseNorwegianCurrency(x)
    ELSE extractStructuredFields(x)

---------------------------------------------------------------------------
(* Properties of parseNorwegianCurrency: white space, sign, commas *)

DigitsAndSeparators(t) == \A k \in 1..Len(t) : IsDigit(t[k]) \/ t[k] \in {",", "."}

Paddings == {<<>>, <<" ">>, <<"\n", " ", "\t">>}

\* t without the white space at its two ends
Core(t) ==
    IF Blank(t) THEN <<>>
    ELSE SubSeq(t, Least({k \in 1..Len(t) : ~IsSpace(t[k])}),
                   Greatest({k \in 1..Len(t) : ~IsSpace(t[k])}))

\* groups of digits, 1 to 3 and then 3 each, with one space between them,
\* a comma and two digits
SpaceGrouped(t) ==
    /\ Len(t) >= 8
    /\ t[Len(t) - 2] = "," /\ IsDigit(t[Len(t) - 1]) /\ IsDigit(t[Len(t)])
    /\ IsDigit(t[1])
    /\ \A k \in 1..(Len(t) - 3) :
          IF (Len(t) - 2 - k) % 4 = 0 THEN t[k] = " " ELSE IsDigit(t[k])

RECURSIVE GroupDigits(_)
\* the digits d with a space before every group of three from the right
GroupDigits(d) ==
    IF Len(d) <= 3 THEN d
    ELSE GroupDigits(SubSeq(d, 1, Len(d) - 3)) \o <<" ">> \o SubSeq(d, Len(d) - 2, Len(d))

\* the token D,DD with its integer digits grouped by spaces
Grouped(t) == GroupDigits(SubSeq(t, 1, Len(t) - 3)) \o SubSeq(t, Len(t) - 2, Len(t))

\* C17: white space before and after a token of digits and separators does
\* not change its value, and a token with single spaces as thousands
\* grouping before a comma and two digits has the value of its digits.
C17_WhiteSpace ==
    Called =>
        /\ DigitsAndSeparators(moneyStr) =>
              \A lead \in Paddings, trail \in Paddings :
                  parseNorwegianCurrency(lead \o moneyStr \o trail) = amount
        /\ DigitsAndSeparators(Core(moneyStr)) =>
              amount = parseNorwegianCurrency(Core(moneyStr))
        /\ SpaceGrouped(moneyStr) =>
              amount = Number(DigitsOf(SubSeq(moneyStr, 1, Len(moneyStr) - 3)),
                              SubSeq(moneyStr, Len(moneyStr) - 1, Len(moneyStr)))
        /\ IsCanonical(moneyStr, ",") =>
              parseNorwegianCurrency(Grouped(moneyStr)) = amount

\* a token of two space-separated groups before a comma has been parsed to
\* the value of its digits, and gives the same value between a tab and a
\* newline
C17_Witness ==
    /\ Called
    /\ SpaceGrouped(moneyStr)
    /\ amount = Number(DigitsOf(SubSeq(moneyStr, 1, Len(moneyStr) - 3)),
                       SubSeq(moneyStr, Len(moneyStr) - 1, Len(moneyStr)))
    /\ amount.frac # <<>>
    /\ parseNorwegianCurrency(<<"\t">> \o moneyStr \o <<"\n">>) = amount

---------------------------------------------------------------------------
(* Properties of extractStructuredFields: length of the merchant *)

\* C18: a merchant that is returned is at most 60 characters long, whether
\* it comes from a store pattern, from the org-ID heuristic or from the
\* first line.
C18_MerchantAtMostSixty ==
    (Extracted /\ HasMerchant) => Len(fields.merchant.value) <= 60

\* the first line is longer than 60 characters and the merchant is exactly
\* 60 characters long
C18_Witness ==
    /\ Extracted
    /\ HasMerchant
    /\ Len(FirstLine(text)) > 60
    /\ Len(fields.merchant.value) = 60

---------------------------------------------------------------------------
(* Properties: the sign of amounts *)

\* absent, or a number that is not below zero
AbsentOrNonNegative(x) == x = Undefined \/ (IsNumber(x) /\ ~x.neg)

\* the token with a minus sign put after its first k characters
MinusAfter(token, k) ==
    SubSeq(token, 1, k) \o <<"-">> \o SubSeq(token, k + 1, Len(token))

\* an amount below 10 as receipts print it, d,dd or d.dd, or a token of the
\* tests
AmountLike(token) ==
    \/ /\ Len(token) = 4
       /\ token[2] \in {",", "."}
       /\ IsDigit(token[1]) /\ IsDigit(token[3]) /\ IsDigit(token[4])
    \/ token \in ExampleTokens

\* the receipt "Total <token>" / "MVA <token>"
ReceiptOf(token) ==
    <<"T", "o", "t", "a", "l", " ">> \o token \o
    <<"\n", "M", "V", "A", " ">> \o token

\* C19: amounts are never negative.  parseNorwegianCurrency returns
\* undefined or a number >= 0 for every token, also with a minus sign put
\* anywhere in it; a minus sign in front changes nothing, so '-12,50' gives
\* 12.50; and the vatAmount and the total of a receipt that holds an amount
\* with a minus sign in front are undefined or >= 0.
C19_NeverNegative ==
    Called =>
        /\ AbsentOrNonNegative(amount)
        /\ \A k \in 1..Len(moneyStr) :
               AbsentOrNonNegative(parseNorwegianCurrency(MinusAfter(moneyStr, k)))
        /\ parseNorwegianCurrency(MinusAfter(moneyStr, 0)) = amount
        /\ moneyStr = <<"-", "1", "2", ",", "5", "0">> =>
              amount = Number(<<"1", "2">>, <<"5", "0">>)
        /\ AmountLike(moneyStr) =>
              LET found == extractStructuredFields(ReceiptOf(MinusAfter(moneyStr, 0)))
              IN  /\ AbsentOrNonNegative(found.vatAmount)
                  /\ AbsentOrNonNegative(found.total)

\* an amount has been parsed to a number above zero, and the receipt that
\* holds it with a minus sign in front has a total and a VAT amount
C19_Witness ==
    /\ Called
    /\ AmountLike(moneyStr)
    /\ IsNumber(amount)
    /\ amount # Zero
    /\ IsNumber(extractStructuredFields(ReceiptOf(MinusAfter(moneyStr, 0))).total)
    /\ IsNumber(extractStructuredFields(ReceiptOf(MinusAfter(moneyStr, 0))).vatAmount)

---------------------------------------------------------------------------
(* Properties of parseNorwegianCurrency: several commas *)

\* digits and commas only, at least one comma, exactly two digits after the
\* last comma
CommasThenTwoDigits(t) ==
    /\ \A k \in 1..Len(t) : IsDigit(t[k]) \/ t[k] = ","
    /\ includes(t, ",")
    /\ IsTwoDigits(substringFrom(t, lastIndexOf(t, ",") + 1))

\* C20 as stated: for a token of digits and commas with exactly two digits
\* after the last comma, the last comma is the decimal point: the result is
\* the integer of all digits before the last comma plus the two digits after
\* it as hundredths.
C20_LastCommaIsDecimal ==
    (Called /\ CommasThenTwoDigits(moneyStr)) =>
        amount = Number(DigitsOf(SubSeq(moneyStr, 1, lastIndexOf(moneyStr, ",") - 1)),
                        substringFrom(moneyStr, lastIndexOf(moneyStr, ",") + 1))

---------------------------------------------------------------------------
(* Properties of parseNorwegianCurrency: several dots *)

\* digits and dots only, at least one dot, exactly two digits after the
\* last dot
DotsThenTwoDigits(t) ==
    /\ \A k \in 1..Len(t) : IsDigit(t[k]) \/ t[k] = "."
    /\ includes(t, ".")
    /\ IsTwoDigits(substringFrom(t, lastIndexOf(t, ".") + 1))

\* C21 as stated: for a token of digits and dots with exactly two digits
\* after the last dot, the last dot is the decimal point: the result is the
\* integer of all digits before the last dot plus the two digits after it as
\* hundredths.
C21_LastDotIsDecimal ==
    (Called /\ DotsThenTwoDigits(moneyStr)) =>
        amount = Number(DigitsOf(SubSeq(moneyStr, 1, lastIndexOf(moneyStr, ".") - 1)),
                        substringFrom(moneyStr, lastIndexOf(moneyStr, ".") + 1))

---------------------------------------------------------------------------
(* Properties of parseNorwegianCurrency: the string handed to parseFloat *)

\* the argument of parseFloat at line 57
Handed(t) == stripNonNumeric(resolveSeparators(trim(t)))

\* the position in the trimmed token of the separator that the branches of
\* lines 18-52 take as the decimal separator, 0 when they take none
DecimalSeparatorAt(c) ==
    LET lastCommaPos == lastIndexOf(c, ",")
        lastDotPos   == lastIndexOf(c, ".")
    IN  IF lastCommaPos # 0 /\ lastDotPos # 0
        THEN IF lastCommaPos > lastDotPos THEN lastCommaPos ELSE lastDotPos
        ELSE IF lastCommaPos # 0
        THEN IF IsTwoDigits(substringFrom(c, lastCommaPos + 1)) THEN lastCommaPos ELSE 0
        ELSE IF lastDotPos # 0
        THEN IF IsTwoDigits(substringFrom(c, lastDotPos + 1)) THEN lastDotPos ELSE 0
        ELSE 0

PointsOf(h) == {k \in 1..Len(h) : h[k] = "."}

\* C22 as stated: on every branch the string handed to parseFloat is digits
\* and at most one point, and the point stands where the separator chosen as
\* decimal separator stood: as many digits precede it as precede that
\* separator in the token.
C22_OnePointAtTheSeparator ==
    Called =>
        LET h == Handed(moneyStr)
            c == trim(moneyStr)
            p == DecimalSeparatorAt(c)
        IN  /\ \A k \in 1..Len(h) : IsDigit(h[k]) \/ h[k] = "."
            /\ Cardinality(PointsOf(h)) <= 1
            /\ p = 0 => PointsOf(h) = {}
            /\ p # 0 =>
                  /\ PointsOf(h) # {}
                  /\ Len(DigitsOf(SubSeq(h, 1, indexOf(h, ".") - 1)))
                        = Len(DigitsOf(SubSeq(c, 1, p - 1)))

---------------------------------------------------------------------------
(* Properties of extractStructuredFields: priority of the VAT patterns *)

\* the value that a VAT pattern gives: the amount of its leftmost match,
\* the second amount for the breakdown, undefined without a match
VatValue(pattern, t) ==
    LET m == match(pattern, t)
    IN  IF m = NoMatch THEN Undefined
        ELSE parseNorwegianCurrency(vatStringOf(m))

\* the values of the patterns listed in `order`
VatValues(order, t) == [k \in 1..Len(order) |-> VatValue(order[k], t)]

\* vatAmount is the first non-zero value of `values`, and is zero or absent
\* when there is none
FirstNonZero(values, vatAmount) ==
    LET winners == {k \in 1..Len(values) : Truthy(values[k])}
    IN  IF winners # {} THEN vatAmount = values[Least(winners)]
        ELSE ~Truthy(vatAmount)

\* C23 as stated: four patterns in priority order, the breakdown, herav mva,
\* (MVA|VAT) [25%] <amount> and <amount> (MVA|VAT); vatAmount is the amount
\* of the first of them that matches with a non-zero value.
C23_FourPatterns ==
    Extracted =>
        FirstNonZero(VatValues(<<"vat0", "vat1", "vat2", "vat4">>, text),
                     fields.vatAmount)

\* C23, amended: five patterns in priority order, with MVA <amount> in the
\* fourth place; vatAmount is the amount of the first of them that matches
\* with a non-zero value, wherever the matches stand in the text.
C23_FivePatterns ==
    Extracted =>
        FirstNonZero(VatValues(<<"vat0", "vat1", "vat2", "vat3", "vat4">>, text),
                     fields.vatAmount)

\* the generic pattern matches at the start of the text with a non-zero
\* amount, the breakdown matches further right with another non-zero second
\* number, and vatAmount is the second number of the breakdown
C23_Witness ==
    /\ Extracted
    /\ match("vat0", text) # NoMatch
    /\ match("vat2", text) # NoMatch
    /\ match("vat2", text).start < match("vat0", text).start
    /\ Truthy(VatValue("vat2", text))
    /\ Truthy(VatValue("vat0", text))
    /\ VatValue("vat2", text) # VatValue("vat0", text)
    /\ fields.vatAmount = VatValue("vat0", text)

---------------------------------------------------------------------------
(* Properties of extractStructuredFields: the generic VAT pattern *)

\* the whole of a is one amount: 1 to 4 digits, groups of a separator and 3
\* digits, a separator and 2 digits
IsAmountToken(a) == \E k \in 1..Len(AmountPlain(a, 1)) : AmountPlain(a, 1)[k] = Len(a) + 1

\* the position after an optional "25%" at i and the white space behind it
After25Percent(t, i) ==
    IF Lit25Percent(t, i) = <<>> THEN i ELSE i + 3 + SpaceRun(t, i + 3)

\* for a text that is MVA or VAT, optional white space, an optional 25% and
\* one amount token: the token; the empty string for any other text
GenericVatToken(t) ==
    IF VatKeyword(t, 1) = <<>> THEN <<>>
    ELSE LET a == Core(SubSeq(t, After25Percent(t, 4 + SpaceRun(t, 4)), Len(t)))
         IN  IF IsAmountToken(a) THEN a ELSE <<>>

\* C24 as stated: for a text that is the keyword MVA or VAT, optional white
\* space, an optional 25% and one amount token A, vatAmount is
\* parseNorwegianCurrency of the whole of A.
C24_GenericVat ==
    (Extracted /\ GenericVatToken(text) # <<>>) =>
        fields.vatAmount = parseNorwegianCurrency(GenericVatToken(text))

---------------------------------------------------------------------------
(* Properties of extractStructuredFields: total keywords and lines *)

\* the valid values of the amounts that stand on a line together with the
\* total keyword that anchors them
OwnLineValues(t) ==
    ValidOf(UNION {KeywordValues(linesOf(t)[k]) : k \in 1..Len(linesOf(t))})

\* some line has a total keyword directly followed by a valid amount
HasKeywordLine(t) ==
    \E k \in 1..Len(linesOf(t)) : ValidOf(ValuesOf("total0", linesOf(t)[k])) # {}

\* C25 as stated: when some line has a total keyword directly followed by a
\* valid amount, the total is the maximum over the amounts whose own line
\* carries a total keyword; an amount on a line without a total keyword is
\* never the total, even if it is larger.
C25_KeywordLinesOnly ==
    (Extracted /\ HasKeywordLine(text)) => IsMaxOf(fields.total, OwnLineValues(text))

---------------------------------------------------------------------------
(* Properties of extractStructuredFields: holding company and subsidiary *)

\* the positions at which the word w (lower case) stands in t
WordPositions(t, w) == {i \in 1..Len(t) : WordAt(t, i, w)}

Biltema == <<"b", "i", "l", "t", "e", "m", "a">>

\* C26: when SPORTSHOLDING and ANTONSPORT both occur, in either order, and
\* no store pattern listed before ANTONSPORT occurs, merchant is the
\* leftmost ANTONSPORT occurrence as the text writes it; merchant is the
\* SPORTSHOLDING occurrence only in a text without ANTONSPORT.
C26_SubsidiaryWins ==
    Extracted =>
        /\ (/\ WordPositions(text, Antonsport) # {}
            /\ WordPositions(text, Sportsholding) # {}
            /\ WordPositions(text, Biltema) = {})
              => /\ HasMerchant
                 /\ fields.merchant.value
                        = SubSeq(text, Least(WordPositions(text, Antonsport)),
                                 Least(WordPositions(text, Antonsport)) + 9)
        /\ (HasMerchant /\ Lowered(fields.merchant.value) = Sportsholding)
              => WordPositions(text, Antonsport) = {}

\* SPORTSHOLDING stands on the first line, ANTONSPORT after it, and merchant
\* is the ANTONSPORT occurrence
C26_Witness ==
    /\ Extracted
    /\ WordPositions(text, Sportsholding) # {}
    /\ WordPositions(text, Antonsport) # {}
    /\ Least(WordPositions(text, Sportsholding)) < Least(WordPositions(text, Antonsport))
    /\ WordPositions(text, Biltema) = {}
    /\ HasMerchant
    /\ Lowered(fields.merchant.value) = Antonsport

---------------------------------------------------------------------------
(* Properties of extractStructuredFields: the window above the org-ID line *)

\* no store pattern occurs and some line is an org-ID line
OrgLineCase ==
    /\ Extracted
    /\ StoresIn(text) = {}
    /\ OrgLines(linesOf(text)) # {}

\* C27: without a store pattern, the org-ID heuristic chooses among the up
\* to 3 lines before the first org-ID line only; when none of them
\* qualifies, or the org-ID line is the first line, merchant is the first
\* non-empty line cut to 60 characters, and a line further up is merchant
\* only as that first line.
C27_OrgWindow ==
    OrgLineCase =>
        LET lines == linesOf(text)
            Q     == QualifyingAbove(lines)
        IN  /\ HasMerchant
            /\ Q # {} => \E k \in Q : fields.merchant.value = Shortened(lines[k])
            /\ Q = {} => fields.merchant.value = FirstSixty(lines[1])
            /\ \A k \in 1..Len(lines) :
                  (k < Least(OrgLines(lines)) - 3
                      /\ fields.merchant.value = Shortened(lines[k])
                      /\ \A j \in Q : Shortened(lines[j]) # Shortened(lines[k]))
                  => (k = 1 /\ Q = {})

\* the org-ID line is the fifth line, the first line qualifies and is not
\* merchant: merchant is a line of the window
C27_Witness ==
    /\ OrgLineCase
    /\ Least(OrgLines(linesOf(text))) = 5
    /\ Qualifies(linesOf(text)[1])
    /\ HasMerchant
    /\ fields.merchant.value # Shortened(linesOf(text)[1])
    /\ fields.merchant.value = Shortened(linesOf(text)[2])

---------------------------------------------------------------------------
(* Properties of extractStructuredFields: newline styles *)

RECURSIVE Restyle(_, _)
\* the text t, written with "\n" line ends, with every line end written nl
Restyle(t, nl) ==
    IF t = <<>> THEN <<>>
    ELSE (IF Head(t) = "\n" THEN nl ELSE <<Head(t)>>) \o Restyle(Tail(t), nl)

\* the text has line ends and all of them are written "\n"
WrittenWithLF(t) ==
    /\ \E k \in 1..Len(t) : t[k] = "\n"
    /\ \A k \in 1..Len(t) : t[k] # "\r"

\* C28 as stated: the lines are split on LF, CRLF and a lone CR alike, so a
\* receipt written with any of the three newline styles has the same lines
\* and the same merchant.
C28_AnyNewlineStyle ==
    (Extracted /\ WrittenWithLF(text)) =>
        \A nl \in {<<"\r", "\n">>, <<"\r">>} :
            /\ linesOf(Restyle(text, nl)) = linesOf(text)
            /\ merchantOf(Restyle(text, nl)) = fields.merchant

---------------------------------------------------------------------------
(* Properties of parseNorwegianCurrency: noise after the number *)

\* C29 as stated: characters other than digits and separators put after a
\* token of digits and separators do not change its value; '12,50 kr' gives
\* what '12,50' gives.
C29_NoiseAfter ==
    Called =>
        /\ DigitsAndSeparators(moneyStr) =>
              \A noise \in {<<" ", "k", "r">>, <<"k", "r">>, <<"a">>} :
                  parseNorwegianCurrency(moneyStr \o noise) = amount
        /\ moneyStr = <<"1", "2", ",", "5", "0", " ", "k", "r">> =>
              amount = parseNorwegianCurrency(<<"1", "2", ",", "5", "0">>)

---------------------------------------------------------------------------
(* Properties of extractStructuredFields: amounts and line breaks *)

\* the values of the money-shaped numbers printed within one line of t
SingleLineValues(t) ==
    UNION {{parseNorwegianCurrency(sub) : sub \in MoneySubstrings(linesOf(t)[k])} :
              k \in 1..Len(linesOf(t))}

\* C30 as stated: digits on different lines are never joined into one
\* amount by the keyword patterns or the fallback money pattern: a total is
\* the value of a number printed on a single line.
C30_TotalFromOneLine ==
    (Extracted /\ fields.total # Undefined) => fields.total \in SingleLineValues(text)

====
